---------------------------- MODULE Spec2Model ----------------------------
(***************************************************************************)
(* Model of the telemetry pipeline of echoes-sh/sdk.                       *)
(*                                                                         *)
(* Part 1: EventBatcher (src/src/types.ts, lines 285-606) together with    *)
(* the first-batch flag of the SessionManager it calls into                *)
(* (src/src/analytics/trackers.ts, lines 671-948): Spec.                   *)
(* Part 2: SessionManager and the visitor id of the ExperimentClient       *)
(* (src/src/experiments/index.ts): SpecSession.                            *)
(* Part 3: RecordingManager (src/src/analytics/recording-manager.ts):      *)
(* SpecRec.                                                                *)
(* Each specification moves the variables of its own part and holds the    *)
(* others fixed.                                                           *)
(*                                                                         *)
(* Events are numbered 1, 2, 3, ... in the order in which add() is called, *)
(* so "in the order added" is "strictly increasing".                       *)
(*                                                                         *)
(* The JavaScript event loop runs every handler to completion: one action  *)
(* of the model is one handler, or the part of an async function between   *)
(* two awaits that suspend on I/O or on a timer.                           *)
(***************************************************************************)
EXTENDS Integers, Sequences, FiniteSets, TLC

\* ------------------------------------------------------------------ bounds

\* Number of add() calls in a behaviour.
MaxEvents == 5

\* config.batchSize is drawn from 1..MaxBatchSize at construction.
MaxBatchSize == 2

\* Date.now() runs over 0..MaxTime.
MaxTime == 3

\* config.timeout of the SessionManager is drawn from 1..MaxTimeout.
MaxTimeout == 2

\* Number of identifiers generateVisitorId() / generateSessionId() hand out.
MaxIds == 4

\* Number of events rrweb emits in a behaviour.
MaxRecEvents == 3

\* Stands for MAX_EVENTS_BUFFER (500 in the source): the buffer length at
\* which handleEvent() flushes.
MaxBuffer == 2

\* Number of start() calls in a behaviour.
MaxStarts == 2

\* Number of session roll-overs during a recording.
MaxRollovers == 1

\* Number of experiment keys the page asks about.
MaxKeys == 1

\* Number of variation keys the server knows.
MaxVariations == 2

\* Number of ExperimentClient calls suspended at a fetch at one time.
MaxCalls == 1

\* Length of the experiment key, the visitor id and the salt given to
\* hashToBucket.
MaxHashLen == 2

\* Number of Echoes.send calls in a behaviour.
MaxSends == 6

\* ------------------------------------------------------- program constants

MAX_RETRY_ATTEMPTS == 3

RETRY_DELAY_MS == 1000

\* The factor of `this.config.batchSize * 3` in flush()'s catch block.
RETRY_QUEUE_FACTOR == 3

\* ExperimentClient.CONFIG_CACHE_TTL (60000 ms in the source), in ticks of
\* the clock `now`.
CONFIG_CACHE_TTL == 2

\* ------------------------------------------------------------------- state

VARIABLES
    batchSize,      \* config.batchSize
    transport,      \* runtime: "beacon" (navigator.sendBeacon), "xhr"
                    \* (XMLHttpRequest only), "none" (no window, neither)
    queue,          \* EventBatcher.queue
    retryQueue,     \* EventBatcher.retryQueue
    isFlushing,     \* EventBatcher.isFlushing
    destroyed,      \* EventBatcher.destroyed
    timer,          \* EventBatcher.timer # null
    isFirstBatch,   \* SessionManager.isFirstBatch
    inflight,       \* the suspended sendBatch calls: events, attempt, phase
    nextId,         \* number the next add() gives its event
    onErrorCalls,   \* number of config.onError invocations
    \* observations of the last step
    lastOp,         \* the handler or continuation that ran
    sent,           \* the payloads the step handed to a transport
    lastDelay,      \* the setTimeout delay the step armed (0: none)
    \* history
    delivered,      \* events of the batches sendBatch resolved, in order
    handed,         \* events of the payloads handed to the teardown transport
    capDropped,     \* events cut off by the retry-queue cap
    failedEvents,   \* events that were part of a failed flush
    succAfterFail,  \* failedEvents at the time of the latest successful flush
    deliveredNow,   \* the step's delivered payload: <<its `session` flag>>
    anyDelivered,   \* a payload was delivered earlier in this session
    everDelivered,  \* the events of every payload delivered, by fetch or by
                    \* the teardown transport
    deliveredFor    \* the session ids of the payloads delivered

\* SessionManager (src/src/analytics/trackers.ts) and the visitor id of the
\* ExperimentClient (src/src/experiments/index.ts).  Identifiers are numbers,
\* 0 standing for null / nothing stored.
VARIABLES
    now,             \* Date.now()
    timeout,         \* SessionManagerConfig.timeout
    storageOK,       \* localStorage / sessionStorage work (do not throw)
    storedVisitorId, \* localStorage["echoes_visitor_id"]
    storedSession,   \* sessionStorage["echoes_session"]
    smAlive,         \* a SessionManager has been constructed on this page
    sessionId,       \* SessionManager.sessionId
    visitorId,       \* SessionManager.visitorId
    userIdentifier,  \* SessionManager.userIdentifier
    lastActivity,    \* SessionManager.lastActivity
    ecAlive,         \* an ExperimentClient has been constructed on this page
    ecVisitorId,     \* ExperimentClient.visitorId
    ecExplicit,      \* it was constructed with options.visitorId
    nextUuid,        \* the identifier the next generate...Id() call returns
    result,          \* the value the last getter call returned
    resetSinceSM     \* reset() ran after the SessionManager was constructed

\* RecordingManager (src/src/analytics/recording-manager.ts).  Its events,
\* isFlushing and destroyed fields carry the prefix rec.
VARIABLES
    recEvents,       \* RecordingManager.events
    chunkIndex,      \* RecordingManager.chunkIndex
    isRecording,     \* RecordingManager.isRecording
    recIsFlushing,   \* RecordingManager.isFlushing
    recDestroyed,    \* RecordingManager.destroyed
    stopFn,          \* RecordingManager.stopFn is set
    recorders,       \* number of rrweb recorders started and not stopped
    staleTimers,     \* max-duration timeouts pending that were armed before
                     \* the present recording began
    flushTimer,      \* RecordingManager.flushTimer # null
    starting,        \* number of start() calls awaiting import("rrweb")
    maxTimers,       \* number of pending max-duration timeouts
    recInflight,     \* the suspended flush(): <<>> or one record
    recNext,         \* number of the next event rrweb emits
    startCalls,      \* number of start() calls so far
    chunkSent,       \* observation: the chunk the step handed to fetch
    recOnError,      \* observation: the step called config.onError
    lastMark,        \* history: the isLast flags of the chunks sent in the
                     \* current recording, summed up (see MarkAfter)
    accepted         \* history: the chunks uploaded with success and the
                     \* teardown chunks sent, in order

\* ExperimentClient (src/src/experiments/index.ts), its visitor id excepted.
VARIABLES
    activeExperiments,  \* ExperimentClient.activeExperiments: the variation
                        \* key cached for each experiment key, 0 for none
    storedAssignments,  \* localStorage["echoes_exp_assignments"], likewise
    configCache,        \* ExperimentClient.configCache
    configCacheTime,    \* ExperimentClient.configCacheTime
    ecUserIdentifier,   \* ExperimentClient.userIdentifier, 0 for undefined
    calls,              \* the calls suspended at a fetch
    expResult,          \* observation: what the call that last started or
                        \* resolved has returned, or that it is pending
    prevVariation       \* history: for each experiment key the variation
                        \* key the last resolved getVariation returned, 0
                        \* for none, for null and after a reset

\* hashToBucket (src/unnamed/part_003): the arguments of the call and what it
\* computed.  A string is the sequence of its UTF-16 code units; a 32-bit
\* word is a record of its two 16-bit halves.
VARIABLES
    hKey,            \* experimentKey
    hVisitor,        \* visitorId
    hSalt,           \* salt, <<>> for none
    hHash,           \* observation: what murmur3(hashInput) returned
    hBucket          \* observation: what hashToBucket returned

\* Echoes (src/src/client.ts): the feedback client.
VARIABLES
    fbPending,       \* the send() suspended at its fetch: <<>> or one record
    fbCalls,         \* number of send() calls so far
    fbResult         \* observation: how the last send() ended

vars == <<batchSize, transport, queue, retryQueue, isFlushing, destroyed, timer,
          isFirstBatch, inflight, nextId, onErrorCalls, lastOp, sent, lastDelay,
          delivered, handed, capDropped, failedEvents, succAfterFail,
          deliveredNow, anyDelivered,
          now, timeout, storageOK, storedVisitorId, storedSession, smAlive,
          sessionId, visitorId, userIdentifier, lastActivity, ecAlive,
          ecVisitorId, ecExplicit, nextUuid, result, resetSinceSM,
          recEvents, chunkIndex, isRecording, recIsFlushing, recDestroyed, stopFn,
          flushTimer, starting, maxTimers, recInflight, recNext, startCalls,
          chunkSent, recOnError, lastMark, accepted,
          activeExperiments, storedAssignments, configCache, configCacheTime,
          ecUserIdentifier, calls, expResult, prevVariation,
          hKey, hVisitor, hSalt, hHash, hBucket,
          fbPending, fbCalls, fbResult, recorders, staleTimers,
          everDelivered, deliveredFor>>

\* The variables of the feedback client.
feedbackVars == <<fbPending, fbCalls, fbResult>>

\* The variables of hashToBucket.
hashVars == <<hKey, hVisitor, hSalt, hHash, hBucket>>

\* The variables of the ExperimentClient, its visitor id excepted.
experimentVars == <<activeExperiments, storedAssignments, configCache,
                    configCacheTime, ecUserIdentifier, calls, expResult,
                    prevVariation>>

\* The variables of the RecordingManager.
recordingVars == <<recEvents, chunkIndex, isRecording, recIsFlushing, recDestroyed,
                   stopFn, flushTimer, starting, maxTimers, recInflight, recNext,
                   startCalls, chunkSent, recOnError, lastMark, accepted, recorders, staleTimers>>

\* The variables of the EventBatcher alone.
batcherVars == <<batchSize, transport, queue, retryQueue, isFlushing, destroyed,
                 timer, inflight, nextId, onErrorCalls, sent, lastDelay,
                 delivered, handed, capDropped, failedEvents, succAfterFail,
                 deliveredNow, anyDelivered, everDelivered, deliveredFor>>

\* The variables of the identity store, the first-batch flag excepted.
sessionVars == <<now, timeout, storageOK, storedVisitorId, storedSession, smAlive,
                 sessionId, visitorId, userIdentifier, lastActivity, ecAlive,
                 ecVisitorId, ecExplicit, nextUuid, result, resetSinceSM>>

config == <<batchSize, transport>>

history == <<delivered, handed, capDropped, failedEvents, succAfterFail,
             everDelivered, deliveredFor>>

\* ----------------------------------------------------------------- helpers

Min(a, b) == IF a < b THEN a ELSE b

Range(s) == {s[i] : i \in 1..Len(s)}

\* Array.prototype.slice(0, n)
Slice(s, n) == SubSeq(s, 1, Min(Len(s), n))

\* s without its i-th element
RemoveAt(s, i) == SubSeq(s, 1, i - 1) \o SubSeq(s, i + 1, Len(s))

\* events in strictly increasing order: no duplicate, creation order
Ordered(s) == \A i, j \in 1..Len(s) : i < j => s[i] < s[j]

Transports == {"beacon", "xhr", "none"}

\* What fetch() can do, then what the body of a 2xx response can be.
FetchOutcomes == {"network", "http", "2xx"}

BodyOutcomes == {"success", "rejected", "unparsable"}

\* --------------------------------------------------- pure parts of the code

\* Variant: the comparison written `>`.
BatchIsFull_Strict(q, bs) == Len(q) > bs

\* add(): `this.queue.length >= this.config.batchSize`
BatchIsFull(q, bs) == Len(q) >= bs

\* Variant: the early return without the destroyed test.
FlushProceeds_NoDestroyed(d, f, q) == ~(f \/ Len(q) = 0)

\* Variant: the early return without the isFlushing test.
FlushProceeds_NoGuard(d, f, q) == ~(d \/ Len(q) = 0)

\* flush(): the negation of its early return
FlushProceeds(d, f, q) == ~(d \/ f \/ Len(q) = 0)

\* Variant: the retry queue cleared without being put in front of the batch.
FlushEvents_QueueOnly(q, r) == q

\* flush(): `events = [...queue]; events.unshift(...retryQueue)`
FlushEvents(q, r) == IF Len(r) > 0 THEN r \o q ELSE q

\* Variant: the cap written `this.config.batchSize`.
RequeueLimit_BatchSize(events, bs) == Slice(events, bs)

\* Variant: no cap, `this.retryQueue = events`.
RequeueLimit_Unbounded(events, bs) == events

\* flush() catch: `events.slice(0, this.config.batchSize * 3)`
RequeueLimit(events, bs) == Slice(events, bs * RETRY_QUEUE_FACTOR)

\* flushSync(): the negation of its first early return
FlushSyncProceeds(d, q) == ~(d \/ Len(q) = 0)

\* flushSync(): `[...this.queue, ...this.retryQueue]`
FlushSyncEvents(q, r) == q \o r

\* Variant: the comparison written `<=`.
ShouldRetry_Inclusive(attempt) == attempt <= MAX_RETRY_ATTEMPTS

\* sendBatch() catch: `attempt < MAX_RETRY_ATTEMPTS`
ShouldRetry(attempt) == attempt < MAX_RETRY_ATTEMPTS

\* sendBatch(): `if (data.success)` on the parsed body of a 2xx response
IsSuccess(b) == b = "success"

\* sendBatch() catch: `RETRY_DELAY_MS * attempt`
RetryDelay(attempt) == RETRY_DELAY_MS * attempt

\* The EventBatch built by sendBatch / sendBeacon / sendSyncXHR: the events
\* and whether the session metadata is attached.
Payload(events, first, via) == [events |-> events, session |-> first, via |-> via]

\* getQueueSize()
getQueueSize == Len(queue) + Len(retryQueue)

\* -------------------------------------------------------------------- Init

\* The identifiers that exist before the model starts: the session id and the
\* visitor id found in storage, and the id passed as options.visitorId.
\* generate...Id() hands out 1..MaxIds.
StoredSessionId0 == MaxIds + 1

StoredVisitorId0 == MaxIds + 2

OptionVisitorId == MaxIds + 3

\* sessionStorage["echoes_session"]: nothing, a value restoreOrStartSession
\* cannot use (not JSON, or without a numeric lastActivity), or a StoredSession.
NoSession == [kind |-> "none", sessionId |-> 0, lastActivity |-> 0]

GarbageSession == [kind |-> "garbage", sessionId |-> 0, lastActivity |-> 0]

StoredSession(sid, la) == [kind |-> "session", sessionId |-> sid, lastActivity |-> la]

\* The EventBatcher after its constructor.
BatcherInit ==
    /\ queue = <<>>
    /\ retryQueue = <<>>
    /\ isFlushing = FALSE
    /\ destroyed = FALSE
    /\ timer = TRUE
    /\ inflight = <<>>
    /\ nextId = 1
    /\ onErrorCalls = 0
    /\ sent = <<>>
    /\ lastDelay = 0
    /\ delivered = <<>>
    /\ handed = <<>>
    /\ capDropped = {}
    /\ failedEvents = {}
    /\ succAfterFail = {}
    /\ deliveredNow = <<>>
    /\ anyDelivered = FALSE
    /\ everDelivered = {}
    /\ deliveredFor = {}

\* A SessionManager that has just started a new session, with working
\* storage; no ExperimentClient.
SessionStarted ==
    /\ now = 0
    /\ timeout = 1
    /\ storageOK = TRUE
    /\ storedVisitorId = StoredVisitorId0
    /\ storedSession = StoredSession(StoredSessionId0, 0)
    /\ smAlive = TRUE
    /\ sessionId = StoredSessionId0
    /\ visitorId = StoredVisitorId0
    /\ userIdentifier = 0
    /\ lastActivity = 0
    /\ ecAlive = FALSE
    /\ ecVisitorId = 0
    /\ ecExplicit = FALSE
    /\ nextUuid = 1
    /\ result = 0
    /\ resetSinceSM = FALSE

\* The RecordingManager after its constructor.
RecordingInit ==
    /\ recEvents = <<>>
    /\ chunkIndex = 0
    /\ isRecording = FALSE
    /\ recIsFlushing = FALSE
    /\ recDestroyed = FALSE
    /\ stopFn = FALSE
    /\ recorders = 0
    /\ staleTimers = 0
    /\ flushTimer = FALSE
    /\ starting = 0
    /\ maxTimers = 0
    /\ recInflight = <<>>
    /\ recNext = 1
    /\ startCalls = 0
    /\ chunkSent = <<>>
    /\ recOnError = FALSE
    /\ lastMark = "none"
    /\ accepted = <<>>

\* The experiment keys, the variation keys, and a map from experiment keys
\* to variation keys with 0 for no entry.
Keys == 1..MaxKeys

Variations == 1..MaxVariations

NoAssignments == [k \in Keys |-> 0]

\* What JSON.parse makes of the text "null", and a text under the
\* assignments key that is not JSON.
NullAssignments == [k \in Keys |-> -1]

NotJson == [k \in Keys |-> -2]

\* `this.activeExperiments[k]` throws a TypeError
IsNull(cache) == cache = NullAssignments

\* loadCachedAssignments(): `if (cached) { try { JSON.parse(cached) } catch
\* { {} } }`, the value of activeExperiments for what storage.get returned
LoadCachedAssignments(stored) ==
    IF stored = NotJson THEN NoAssignments ELSE stored

\* getActiveExperiments(): `{ ...this.activeExperiments }`
getActiveExperiments(cache) == IF IsNull(cache) THEN NoAssignments ELSE cache

\* configCache = null
NoConfig == [present |-> FALSE, experiments |-> [k \in Keys |-> {}]]

\* What a suspended call shows, and what a call returned.  success is
\* "true", "false" or "undefined" (the body has no such field); experiments
\* is "list", "empty" or "undefined"; outcome is how the last fetch of the
\* call ended ("none": the call made no request) and received the variation
\* in the body that assign() read, 0 for none.
Pending(op, k) ==
    [op |-> op, key |-> k, done |-> FALSE, success |-> "undefined",
     assigned |-> FALSE, variation |-> 0, experiments |-> "undefined",
     outcome |-> "none", prev |-> 0, fresh |-> FALSE, rejected |-> FALSE,
     received |-> 0]

\* The promise of the call was rejected.
Rejected(op, k) ==
    [op |-> op, key |-> k, done |-> TRUE, success |-> "undefined",
     assigned |-> FALSE, variation |-> 0, experiments |-> "undefined",
     outcome |-> "none", prev |-> 0, fresh |-> FALSE, rejected |-> TRUE,
     received |-> 0]

Returned(op, k, success, assigned, v, experiments, outcome) ==
    [op |-> op, key |-> k, done |-> TRUE, success |-> success,
     assigned |-> assigned, variation |-> v, experiments |-> experiments,
     outcome |-> outcome, prev |-> 0, fresh |-> FALSE, rejected |-> FALSE,
     received |-> 0]

\* What getVariation(k) returned: v, 0 for null.  prev is what the
\* getVariation(k) before it returned and fresh tells that the config
\* snapshot was fresh when the call began.
ReturnedVariation(k, v, outcome, prev, fresh) ==
    [op |-> "getVariation", key |-> k, done |-> TRUE, success |-> "undefined",
     assigned |-> FALSE, variation |-> v, experiments |-> "undefined",
     outcome |-> outcome, prev |-> prev, fresh |-> fresh, rejected |-> FALSE,
     received |-> 0]

\* How a send() ended: "none" (no call yet), "pending", "resolved" or
\* "rejected" with the code and the statusCode of the EchoesError, 0 for an
\* undefined statusCode; status is the HTTP status received, 0 for none.
SendResult(kind, code, statusCode, status) ==
    [kind |-> kind, code |-> code, statusCode |-> statusCode, status |-> status]

\* An Echoes client just constructed.
FeedbackInit ==
    /\ fbPending = <<>>
    /\ fbCalls = 0
    /\ fbResult = SendResult("none", "", 0, 0)

\* A 32-bit word of halves hi and lo.
Word(hi, lo) == [hi |-> hi, lo |-> lo]

\* No hashToBucket call.
HashInit ==
    /\ hKey = <<>>
    /\ hVisitor = <<>>
    /\ hSalt = <<>>
    /\ hHash = Word(0, 0)
    /\ hBucket = 0

\* No ExperimentClient yet; storage holds no assignments.
ExperimentInit ==
    /\ activeExperiments = NoAssignments
    /\ storedAssignments = NoAssignments
    /\ configCache = NoConfig
    /\ configCacheTime = 0
    /\ ecUserIdentifier = 0
    /\ calls = <<>>
    /\ expResult = Pending("none", 0)
    /\ prevVariation = NoAssignments

\* An EventBatcher constructed over a SessionManager with a new session.
Init ==
    /\ batchSize \in 1..MaxBatchSize
    /\ transport \in Transports
    /\ BatcherInit
    /\ isFirstBatch = TRUE
    /\ lastOp = "init"
    /\ SessionStarted
    /\ RecordingInit
    /\ ExperimentInit
    /\ HashInit
    /\ FeedbackInit

\* ------------------------------------------------------------ flush, async

\* flush() called with the queue being q (add() has pushed before it calls).
\* Runs up to the first await inside sendBatch, i.e. up to and including the
\* call of fetch().  The record of the request keeps the sessionId of its
\* payload and, as history, what had been delivered when it was sent (seen).
Flush(q) ==
    IF FlushProceeds(destroyed, isFlushing, q)
    THEN LET events == FlushEvents(q, retryQueue) IN
         /\ isFlushing' = TRUE
         /\ queue' = <<>>
         /\ retryQueue' = <<>>
         /\ inflight' = Append(inflight,
                               [events |-> events, attempt |-> 1, phase |-> "fetch",
                                session |-> isFirstBatch, seen |-> everDelivered,
                                sessionId |-> sessionId])
         /\ sent' = <<Payload(events, isFirstBatch, "fetch")>>
    ELSE /\ queue' = q
         /\ sent' = <<>>
         /\ UNCHANGED <<isFlushing, retryQueue, inflight>>

\* What every flush() caller leaves alone.
FlushFrame ==
    /\ lastDelay' = 0
    /\ deliveredNow' = <<>>
    /\ anyDelivered' = anyDelivered
    /\ UNCHANGED <<config, destroyed, timer, isFirstBatch, onErrorCalls, history>>
    /\ UNCHANGED sessionVars
    /\ UNCHANGED recordingVars
    /\ UNCHANGED hashVars
    /\ UNCHANGED feedbackVars
    /\ UNCHANGED experimentVars

\* add(event)
Add ==
    /\ nextId <= MaxEvents
    /\ nextId' = nextId + 1
    /\ lastOp' = "add"
    /\ FlushFrame
    /\ IF destroyed
       THEN /\ sent' = <<>>
            /\ UNCHANGED <<queue, retryQueue, isFlushing, inflight>>
       ELSE LET q == Append(queue, nextId) IN
            IF BatchIsFull(q, batchSize)
            THEN Flush(q)
            ELSE /\ queue' = q
                 /\ sent' = <<>>
                 /\ UNCHANGED <<retryQueue, isFlushing, inflight>>

\* The setInterval callback of startTimer().
TimerTick ==
    /\ timer
    /\ lastOp' = "timer"
    /\ nextId' = nextId
    /\ FlushFrame
    /\ IF Len(queue) > 0
       THEN Flush(queue)
       ELSE /\ sent' = <<>>
            /\ UNCHANGED <<queue, retryQueue, isFlushing, inflight>>

\* The visibilitychange listener, document.visibilityState being "hidden".
VisibilityHidden ==
    /\ transport # "none"
    /\ lastOp' = "visibility"
    /\ nextId' = nextId
    /\ FlushFrame
    /\ Flush(queue)

\* flush() called by the owner of the batcher.
CallerFlush ==
    /\ lastOp' = "flush"
    /\ nextId' = nextId
    /\ FlushFrame
    /\ Flush(queue)

\* ------------------------------------------------- sendBatch continuations

\* What the continuations of an in-flight flush leave alone.
AsyncFrame ==
    /\ nextId' = nextId
    /\ UNCHANGED <<config, queue, destroyed, timer>>
    /\ UNCHANGED sessionVars
    /\ UNCHANGED recordingVars
    /\ UNCHANGED hashVars
    /\ UNCHANGED feedbackVars
    /\ UNCHANGED experimentVars

\* sendBatch resolved (data.success): markFirstBatchSent(), then flush()'s
\* finally block.
SendSucceeds(i) ==
    /\ lastOp' = "flushOk"
    /\ isFirstBatch' = FALSE
    /\ isFlushing' = FALSE
    /\ inflight' = RemoveAt(inflight, i)
    /\ sent' = <<>>
    /\ lastDelay' = 0
    /\ delivered' = delivered \o inflight[i].events
    /\ everDelivered' = everDelivered \cup Range(inflight[i].events)
    /\ deliveredFor' = deliveredFor \cup {inflight[i].sessionId}
    /\ deliveredNow' = <<inflight[i].session>>
    /\ anyDelivered' = TRUE
    /\ succAfterFail' = failedEvents
    /\ UNCHANGED <<retryQueue, onErrorCalls, handed, capDropped, failedEvents>>

\* Variant: flush() without its finally block, a failure leaving isFlushing
\* set.
SendFails_NoFinally(i) ==
    LET d == inflight[i] IN
    IF ShouldRetry(d.attempt)
    THEN /\ lastOp' = "retryWait"
         /\ inflight' = [inflight EXCEPT ![i].phase = "delay"]
         /\ lastDelay' = RetryDelay(d.attempt)
         /\ sent' = <<>>
         /\ deliveredNow' = <<>>
         /\ UNCHANGED <<retryQueue, isFlushing, isFirstBatch, onErrorCalls, history,
                        anyDelivered>>
    ELSE /\ lastOp' = "flushFailed"
         /\ retryQueue' = RequeueLimit(d.events, batchSize)
         /\ onErrorCalls' = onErrorCalls + 1
         /\ isFlushing' = isFlushing
         /\ inflight' = RemoveAt(inflight, i)
         /\ lastDelay' = 0
         /\ sent' = <<>>
         /\ failedEvents' = failedEvents \cup Range(d.events)
         /\ capDropped' = capDropped \cup (Range(d.events) \ Range(retryQueue'))
         /\ deliveredNow' = <<>>
         /\ UNCHANGED <<isFirstBatch, delivered, handed, succAfterFail, anyDelivered,
                        everDelivered, deliveredFor>>

\* The catch block of sendBatch: wait and try again, or rethrow into flush()'s
\* catch and finally blocks.
SendFails(i) ==
    LET d == inflight[i] IN
    IF ShouldRetry(d.attempt)
    THEN /\ lastOp' = "retryWait"
         /\ inflight' = [inflight EXCEPT ![i].phase = "delay"]
         /\ lastDelay' = RetryDelay(d.attempt)
         /\ sent' = <<>>
         /\ deliveredNow' = <<>>
         /\ UNCHANGED <<retryQueue, isFlushing, isFirstBatch, onErrorCalls, history,
                        anyDelivered>>
    ELSE /\ lastOp' = "flushFailed"
         /\ retryQueue' = RequeueLimit(d.events, batchSize)
         /\ onErrorCalls' = onErrorCalls + 1
         /\ isFlushing' = FALSE
         /\ inflight' = RemoveAt(inflight, i)
         /\ lastDelay' = 0
         /\ sent' = <<>>
         /\ failedEvents' = failedEvents \cup Range(d.events)
         /\ capDropped' = capDropped \cup (Range(d.events) \ Range(retryQueue'))
         /\ deliveredNow' = <<>>
         /\ UNCHANGED <<isFirstBatch, delivered, handed, succAfterFail, anyDelivered,
                        everDelivered, deliveredFor>>

\* `await fetch(...)` settles: rejected (network), non-2xx, or 2xx.
FetchSettles ==
    \E i \in DOMAIN inflight, r \in FetchOutcomes :
        /\ inflight[i].phase = "fetch"
        /\ AsyncFrame
        /\ IF r = "network"
           THEN SendFails(i)
           ELSE /\ lastOp' = "response"
                /\ inflight' = [inflight EXCEPT
                                   ![i].phase = IF r = "http" THEN "errbody" ELSE "body"]
                /\ sent' = <<>>
                /\ lastDelay' = 0
                /\ deliveredNow' = <<>>
                /\ UNCHANGED <<retryQueue, isFlushing, isFirstBatch, onErrorCalls,
                               history, anyDelivered>>

\* `await response.json().catch(() => ({}))` of a non-2xx response settles,
\* then the HTTP error is thrown.
ErrorBodySettles ==
    \E i \in DOMAIN inflight :
        /\ inflight[i].phase = "errbody"
        /\ AsyncFrame
        /\ SendFails(i)

\* `await response.json()` of a 2xx response settles: success true, success
\* false, or a body that does not parse.
BodySettles ==
    \E i \in DOMAIN inflight, b \in BodyOutcomes :
        /\ inflight[i].phase = "body"
        /\ AsyncFrame
        /\ IF IsSuccess(b) THEN SendSucceeds(i) ELSE SendFails(i)

\* The retry delay elapsed: sendBatch(events, attempt + 1) builds the payload
\* again and calls fetch().
DelayElapsed ==
    \E i \in DOMAIN inflight :
        /\ inflight[i].phase = "delay"
        /\ AsyncFrame
        /\ lastOp' = "resend"
        /\ inflight' = [inflight EXCEPT ![i].phase = "fetch",
                                        ![i].attempt = inflight[i].attempt + 1,
                                        ![i].session = isFirstBatch,
                                        ![i].seen = everDelivered,
                                        ![i].sessionId = sessionId]
        /\ sent' = <<Payload(inflight[i].events, isFirstBatch, "fetch")>>
        /\ lastDelay' = 0
        /\ deliveredNow' = <<>>
        /\ UNCHANGED <<retryQueue, isFlushing, isFirstBatch, onErrorCalls, history,
                       anyDelivered>>

\* --------------------------------------------------------------- teardown

\* sendBeacon(events), with its fallback sendSyncXHR(events).  ok is what
\* navigator.sendBeacon returns, or whether the XHR status is 2xx.
SendBeacon(events) ==
    IF transport = "none"
    THEN /\ sent' = <<>>
         /\ deliveredNow' = <<>>
         /\ UNCHANGED <<isFirstBatch, handed, anyDelivered, everDelivered, deliveredFor>>
    ELSE \E ok \in BOOLEAN :
         /\ sent' = <<Payload(events, isFirstBatch, transport)>>
         /\ isFirstBatch' = IF ok THEN FALSE ELSE isFirstBatch
         /\ handed' = handed \o events
         /\ everDelivered' = IF ok THEN everDelivered \cup Range(events)
                              ELSE everDelivered
         /\ deliveredFor' = IF ok THEN deliveredFor \cup {sessionId}
                             ELSE deliveredFor
         /\ deliveredNow' = IF ok THEN <<isFirstBatch>> ELSE <<>>
         /\ anyDelivered' = (anyDelivered \/ ok)

\* flushSync(), run when this.destroyed has the value d.
FlushSync(d) ==
    IF FlushSyncProceeds(d, queue)
    THEN LET events == FlushSyncEvents(queue, retryQueue) IN
         /\ queue' = <<>>
         /\ retryQueue' = <<>>
         /\ IF Len(events) = 0
            THEN /\ sent' = <<>>
                 /\ deliveredNow' = <<>>
                 /\ UNCHANGED <<isFirstBatch, handed, anyDelivered, everDelivered, deliveredFor>>
            ELSE SendBeacon(events)
    ELSE /\ sent' = <<>>
         /\ deliveredNow' = <<>>
         /\ UNCHANGED <<queue, retryQueue, isFirstBatch, handed, anyDelivered,
                        everDelivered, deliveredFor>>

\* What the synchronous teardown handlers leave alone.
SyncFrame ==
    /\ nextId' = nextId
    /\ lastDelay' = 0
    /\ UNCHANGED <<config, isFlushing, inflight, onErrorCalls,
                   delivered, capDropped, failedEvents, succAfterFail>>
    /\ UNCHANGED sessionVars
    /\ UNCHANGED recordingVars
    /\ UNCHANGED hashVars
    /\ UNCHANGED feedbackVars
    /\ UNCHANGED experimentVars

\* The beforeunload / pagehide / unload listener of setupUnloadHandler().
Unload ==
    /\ transport # "none"
    /\ lastOp' = "unload"
    /\ SyncFrame
    /\ UNCHANGED <<destroyed, timer>>
    /\ FlushSync(destroyed)

\* destroy(): sets destroyed, clears the timer, then calls flushSync().
Destroy ==
    /\ lastOp' = "destroy"
    /\ SyncFrame
    /\ IF destroyed
       THEN /\ sent' = <<>>
            /\ deliveredNow' = <<>>
            /\ UNCHANGED <<destroyed, timer, queue, retryQueue, isFirstBatch, handed,
                           anyDelivered, everDelivered, deliveredFor>>
       ELSE /\ destroyed' = TRUE
            /\ timer' = FALSE
            /\ FlushSync(TRUE)

\* -------------------------------------------------------------------- Spec

Next ==
    \/ Add
    \/ TimerTick
    \/ VisibilityHidden
    \/ CallerFlush
    \/ FetchSettles
    \/ ErrorBodySettles
    \/ BodySettles
    \/ DelayElapsed
    \/ Unload
    \/ Destroy

Spec == Init /\ [][Next]_vars

\* -------------------------------------------------------------- type check

TypeOK ==
    /\ batchSize \in 1..MaxBatchSize
    /\ transport \in Transports
    /\ isFlushing \in BOOLEAN /\ destroyed \in BOOLEAN /\ timer \in BOOLEAN
    /\ isFirstBatch \in BOOLEAN
    /\ Range(queue) \cup Range(retryQueue) \subseteq 1..MaxEvents
    /\ nextId \in 1..(MaxEvents + 1)
    /\ \A i \in DOMAIN inflight :
          /\ inflight[i].attempt \in 1..MAX_RETRY_ATTEMPTS
          /\ inflight[i].phase \in {"fetch", "errbody", "body", "delay"}

\* ============================================================ identity store
\* Part 2: SessionManager (src/src/analytics/trackers.ts, lines 671-948) and
\* the visitor id of the ExperimentClient (src/src/experiments/index.ts).

\* Variant: a stored session restored also when it is exactly timeout old.
SessionIsValid_Inclusive(d, t) == d <= t

\* restoreOrStartSession(): `timeSinceActivity < this.timeout`
SessionIsValid(d, t) == d < t

\* Variant: the activity listener expiring a session exactly timeout old.
ActivityExpired_Inclusive(d, t) == d >= t

\* updateActivity: `timeSinceActivity > this.timeout`
ActivityExpired(d, t) == d > t

\* Variant: a new visitor id generated whatever is stored.
StoredIdUsable_Never(stored) == FALSE

\* getOrCreateVisitorId(): `if (stored)` on the value read from localStorage
StoredIdUsable(stored) == stored # 0

\* persistSession(): what sessionStorage holds after it ran for (sid, la).
PersistSession(sid, la) ==
    IF storageOK THEN StoredSession(sid, la) ELSE storedSession

\* isFirstBatchForSession()
isFirstBatchForSession == isFirstBatch

\* What the identity store leaves alone: the EventBatcher.
SessionFrame ==
    /\ UNCHANGED batcherVars
    /\ UNCHANGED recordingVars
    /\ UNCHANGED hashVars
    /\ UNCHANGED feedbackVars
    /\ UNCHANGED experimentVars

\* What the ExperimentClient leaves alone in the SessionManager.
ManagerFrame ==
    UNCHANGED <<now, timeout, storageOK, storedSession, smAlive, sessionId,
                visitorId, userIdentifier, lastActivity, isFirstBatch, result>>

\* What a SessionManager method leaves alone outside the session itself.
IdentityFrame ==
    UNCHANGED <<now, timeout, storageOK, storedVisitorId, smAlive, visitorId,
                ecAlive, ecVisitorId, ecExplicit, resetSinceSM>>

\* Init of the identity store: the page is about to load; storage holds what
\* an earlier page left there.
InitSession ==
    /\ batchSize = 1
    /\ transport = "none"
    /\ BatcherInit
    /\ isFirstBatch = TRUE
    /\ lastOp = "init"
    /\ now = 0
    /\ timeout \in 1..MaxTimeout
    /\ storageOK \in BOOLEAN
    /\ storedVisitorId \in {0, StoredVisitorId0}
    /\ storedSession \in {NoSession, GarbageSession,
                          StoredSession(StoredSessionId0, 0)}
    /\ smAlive = FALSE
    /\ sessionId = 0
    /\ visitorId = 0
    /\ userIdentifier = 0
    /\ lastActivity = 0
    /\ ecAlive = FALSE
    /\ ecVisitorId = 0
    /\ ecExplicit = FALSE
    /\ nextUuid = 1
    /\ result = 0
    /\ resetSinceSM = FALSE
    /\ RecordingInit
    /\ ExperimentInit
    /\ HashInit
    /\ FeedbackInit

\* Time passes.
Tick ==
    /\ now < MaxTime
    /\ now' = now + 1
    /\ lastOp' = "tick"
    /\ SessionFrame
    /\ UNCHANGED <<timeout, storageOK, storedVisitorId, storedSession, smAlive,
                   sessionId, visitorId, userIdentifier, lastActivity, ecAlive,
                   ecVisitorId, ecExplicit, nextUuid, result, resetSinceSM,
                   isFirstBatch>>

\* startNewSession(), the next generated identifier being u.
StartNewSession(u) ==
    /\ sessionId' = u
    /\ lastActivity' = now
    /\ isFirstBatch' = TRUE
    /\ storedSession' = PersistSession(u, now)
    /\ nextUuid' = u + 1

\* new SessionManager(config): getOrCreateVisitorId(), restoreOrStartSession().
\* A page load: the manager of the page before, if any, is gone.
ConstructSM ==
    /\ nextUuid + 1 <= MaxIds
    /\ lastOp' = "construct"
    /\ SessionFrame
    /\ smAlive' = TRUE
    /\ userIdentifier' = 0
    /\ resetSinceSM' = FALSE
    /\ result' = 0
    /\ UNCHANGED <<now, timeout, storageOK, ecAlive, ecVisitorId, ecExplicit>>
    /\ LET restored == storageOK /\ StoredIdUsable(storedVisitorId)
           u == IF restored THEN nextUuid ELSE nextUuid + 1
       IN  /\ visitorId' = IF restored THEN storedVisitorId ELSE nextUuid
           /\ storedVisitorId' = IF storageOK /\ ~restored THEN nextUuid
                                 ELSE storedVisitorId
           /\ IF /\ storageOK
                 /\ storedSession.kind = "session"
                 /\ SessionIsValid(now - storedSession.lastActivity, timeout)
              THEN /\ sessionId' = storedSession.sessionId
                   /\ lastActivity' = storedSession.lastActivity
                   /\ isFirstBatch' = FALSE
                   /\ nextUuid' = u
                   /\ UNCHANGED storedSession
              ELSE StartNewSession(u)

\* updateActivity, the listener of click, scroll, keydown, mousemove and of
\* the tab becoming visible.
Activity ==
    /\ smAlive
    /\ nextUuid <= MaxIds
    /\ lastOp' = "activity"
    /\ SessionFrame
    /\ IdentityFrame
    /\ UNCHANGED <<userIdentifier, result>>
    /\ IF ActivityExpired(now - lastActivity, timeout)
       THEN StartNewSession(nextUuid)
       ELSE /\ lastActivity' = now
            /\ storedSession' = PersistSession(sessionId, now)
            /\ UNCHANGED <<sessionId, isFirstBatch, nextUuid>>

\* The EventBatcher of a page whose session can expire: the batcher with the
\* clock and the activity listeners of its SessionManager.
InitRoll ==
    /\ batchSize = 1
    /\ transport = "beacon"
    /\ BatcherInit
    /\ isFirstBatch = TRUE
    /\ lastOp = "init"
    /\ SessionStarted
    /\ RecordingInit
    /\ ExperimentInit
    /\ HashInit
    /\ FeedbackInit

\* updateActivity run by a click, a scroll or a key after the page has been
\* idle for longer than the timeout: startNewSession().
ActivityAfterIdle ==
    /\ smAlive
    /\ nextUuid <= MaxIds
    /\ lastActivity + timeout + 1 <= MaxTime
    /\ now' = lastActivity + timeout + 1
    /\ ActivityExpired(now' - lastActivity, timeout)
    /\ lastOp' = "activity"
    /\ SessionFrame
    /\ sessionId' = nextUuid
    /\ lastActivity' = now'
    /\ isFirstBatch' = TRUE
    /\ storedSession' = PersistSession(nextUuid, now')
    /\ nextUuid' = nextUuid + 1
    /\ UNCHANGED <<timeout, storageOK, storedVisitorId, smAlive, visitorId,
                   ecAlive, ecVisitorId, ecExplicit, resetSinceSM,
                   userIdentifier, result>>

NextRoll ==
    \/ Next
    \/ ActivityAfterIdle

SpecRoll == InitRoll /\ [][NextRoll]_vars

\* touch()
Touch ==
    /\ smAlive
    /\ lastOp' = "touch"
    /\ SessionFrame
    /\ IdentityFrame
    /\ lastActivity' = now
    /\ storedSession' = PersistSession(sessionId, now)
    /\ UNCHANGED <<sessionId, isFirstBatch, nextUuid, userIdentifier, result>>

\* getSessionId()
GetSessionId ==
    /\ smAlive
    /\ nextUuid <= MaxIds
    /\ lastOp' = "getSessionId"
    /\ SessionFrame
    /\ IdentityFrame
    /\ userIdentifier' = userIdentifier
    /\ IF sessionId = 0
       THEN /\ StartNewSession(nextUuid)
            /\ result' = nextUuid
       ELSE /\ result' = sessionId
            /\ UNCHANGED <<sessionId, lastActivity, isFirstBatch, storedSession,
                           nextUuid>>

\* getVisitorId()
GetVisitorId ==
    /\ smAlive
    /\ lastOp' = "getVisitorId"
    /\ SessionFrame
    /\ IdentityFrame
    /\ result' = visitorId
    /\ UNCHANGED <<sessionId, lastActivity, isFirstBatch, storedSession, nextUuid,
                   userIdentifier>>

\* identify(userId, traits)
Identify ==
    /\ smAlive
    /\ lastOp' = "identify"
    /\ SessionFrame
    /\ IdentityFrame
    /\ userIdentifier' = 1
    /\ UNCHANGED <<sessionId, lastActivity, isFirstBatch, storedSession, nextUuid,
                   result>>

\* clearIdentity()
ClearIdentity ==
    /\ smAlive
    /\ lastOp' = "clearIdentity"
    /\ SessionFrame
    /\ IdentityFrame
    /\ userIdentifier' = 0
    /\ UNCHANGED <<sessionId, lastActivity, isFirstBatch, storedSession, nextUuid,
                   result>>

\* isFirstBatchForSession() and getSessionMetadata(): read only.
ReadSession ==
    /\ smAlive
    /\ lastOp' \in {"isFirstBatchForSession", "getSessionMetadata"}
    /\ SessionFrame
    /\ IdentityFrame
    /\ UNCHANGED <<sessionId, lastActivity, isFirstBatch, storedSession, nextUuid,
                   userIdentifier, result>>

\* markFirstBatchSent()
MarkFirstBatchSent ==
    /\ smAlive
    /\ lastOp' = "markFirstBatchSent"
    /\ SessionFrame
    /\ IdentityFrame
    /\ isFirstBatch' = FALSE
    /\ UNCHANGED <<sessionId, lastActivity, storedSession, nextUuid,
                   userIdentifier, result>>

\* new ExperimentClient(options): `options.visitorId || getOrCreateVisitorId()`
\* with opt = 0 for an absent (or empty) options.visitorId.  defaultStorage
\* reads null and ignores writes when localStorage does not work.
ConstructEC ==
    \E opt \in {0, OptionVisitorId} :
        /\ nextUuid <= MaxIds
        /\ lastOp' = "constructEC"
        /\ UNCHANGED batcherVars
        /\ UNCHANGED recordingVars
        /\ UNCHANGED hashVars
        /\ UNCHANGED feedbackVars
        /\ ManagerFrame
        /\ activeExperiments' =
             IF storageOK THEN LoadCachedAssignments(storedAssignments)
             ELSE NoAssignments
        /\ configCache' = NoConfig
        /\ configCacheTime' = 0
        /\ ecUserIdentifier' = 0
        /\ calls' = <<>>
        /\ expResult' = Pending("none", 0)
        /\ prevVariation' = NoAssignments
        /\ storedAssignments' = storedAssignments
        /\ ecAlive' = TRUE
        /\ ecExplicit' = (opt # 0)
        /\ resetSinceSM' = resetSinceSM
        /\ IF opt # 0
           THEN /\ ecVisitorId' = opt
                /\ UNCHANGED <<storedVisitorId, nextUuid>>
           ELSE IF storageOK /\ StoredIdUsable(storedVisitorId)
                THEN /\ ecVisitorId' = storedVisitorId
                     /\ UNCHANGED <<storedVisitorId, nextUuid>>
                ELSE /\ ecVisitorId' = nextUuid
                     /\ storedVisitorId' = IF storageOK THEN nextUuid
                                           ELSE storedVisitorId
                     /\ nextUuid' = nextUuid + 1

\* Variant: reset() keeping the config snapshot.
ResetEC_KeepsConfig ==
    /\ ecAlive
    /\ nextUuid <= MaxIds
    /\ lastOp' = "reset"
    /\ UNCHANGED batcherVars
    /\ UNCHANGED recordingVars
    /\ UNCHANGED hashVars
    /\ UNCHANGED feedbackVars
    /\ ManagerFrame
    /\ activeExperiments' = NoAssignments
    /\ configCache' = configCache
    /\ storedAssignments' = IF storageOK THEN NoAssignments
                            ELSE storedAssignments
    /\ prevVariation' = NoAssignments
    /\ calls' = [i \in DOMAIN calls |->
                    [calls[i] EXCEPT !.prev = 0, !.stale = TRUE]]
    /\ expResult' = Pending("reset", 0)
    /\ UNCHANGED <<configCacheTime, ecUserIdentifier>>
    /\ ecVisitorId' = nextUuid
    /\ storedVisitorId' = IF storageOK THEN nextUuid ELSE storedVisitorId
    /\ nextUuid' = nextUuid + 1
    /\ resetSinceSM' = smAlive
    /\ UNCHANGED <<ecAlive, ecExplicit>>

\* ExperimentClient.reset()
ResetEC ==
    /\ ecAlive
    /\ nextUuid <= MaxIds
    /\ lastOp' = "reset"
    /\ UNCHANGED batcherVars
    /\ UNCHANGED recordingVars
    /\ UNCHANGED hashVars
    /\ UNCHANGED feedbackVars
    /\ ManagerFrame
    /\ activeExperiments' = NoAssignments
    /\ configCache' = NoConfig
    /\ storedAssignments' = IF storageOK THEN NoAssignments
                            ELSE storedAssignments
    /\ prevVariation' = NoAssignments
    /\ calls' = [i \in DOMAIN calls |->
                    [calls[i] EXCEPT !.prev = 0, !.stale = TRUE]]
    /\ expResult' = Pending("reset", 0)
    /\ UNCHANGED <<configCacheTime, ecUserIdentifier>>
    /\ ecVisitorId' = nextUuid
    /\ storedVisitorId' = IF storageOK THEN nextUuid ELSE storedVisitorId
    /\ nextUuid' = nextUuid + 1
    /\ resetSinceSM' = smAlive
    /\ UNCHANGED <<ecAlive, ecExplicit>>

NextSession ==
    \/ Tick
    \/ ConstructSM
    \/ Activity
    \/ Touch
    \/ GetSessionId
    \/ GetVisitorId
    \/ Identify
    \/ ClearIdentity
    \/ ReadSession
    \/ MarkFirstBatchSent
    \/ ConstructEC
    \/ ResetEC

SpecSession == InitSession /\ [][NextSession]_vars

\* ================================================================ recording
\* Part 3: RecordingManager (src/src/analytics/recording-manager.ts).  The
\* session id of a chunk is what sessionManager.getSessionId() returns when
\* the chunk is built.

\* Variant: the early return of flush() without the empty-buffer test.
RecFlushProceeds_NoEmptyTest(d, f, q) == ~(d \/ f)

\* Variant: the early return of flush() without the destroyed test.
RecFlushProceeds_NoDestroyed(d, f, q) == ~(f \/ Len(q) = 0)

\* flush(): the negation of its early return
RecFlushProceeds(d, f, q) == ~(d \/ f \/ Len(q) = 0)

\* Variant: the events of a failed chunk put back behind the live buffer.
Requeue_AtBack(evts, q) == q \o evts

\* flush() catch: `this.events = [...eventsToSend, ...this.events]`
Requeue(evts, q) == evts \o q

\* What the chunks sent in the current recording amount to once a chunk with
\* the given isLast is sent: "none" (no chunk yet), "open" (chunks, none of
\* them last), "closed" (one last chunk, sent after all others), "broken".
MarkAfter(m, isLast) ==
    IF m \in {"none", "open"}
    THEN (IF isLast THEN "closed" ELSE "open")
    ELSE "broken"

\* The step hands no chunk to fetch.
SendsNothing ==
    /\ chunkSent' = <<>>
    /\ lastMark' = lastMark

\* The step hands chunk c to fetch.
Sends(c) ==
    /\ chunkSent' = <<c>>
    /\ lastMark' = MarkAfter(lastMark, c.isLast)

\* The RecordingChunk built by flush() and by sendBeaconFlush().
Chunk(sid, idx, evts, isLast, via) ==
    [sessionId |-> sid, chunkIndex |-> idx, events |-> evts, isLast |-> isLast,
     via |-> via]

\* What the RecordingManager leaves alone: the EventBatcher and the identity
\* store, the session id excepted.
RecordingFrame ==
    /\ UNCHANGED batcherVars
    /\ UNCHANGED experimentVars
    /\ UNCHANGED hashVars
    /\ UNCHANGED feedbackVars
    /\ UNCHANGED <<now, timeout, storageOK, storedVisitorId, storedSession,
                   smAlive, visitorId, userIdentifier, lastActivity, ecAlive,
                   ecVisitorId, ecExplicit, nextUuid, result, resetSinceSM,
                   isFirstBatch>>

\* Init of the recording pipeline: a RecordingManager constructed over a
\* SessionManager with a session.
InitRec ==
    /\ batchSize = 1
    /\ transport = "none"
    /\ BatcherInit
    /\ isFirstBatch = TRUE
    /\ lastOp = "init"
    /\ SessionStarted
    /\ RecordingInit
    /\ ExperimentInit
    /\ HashInit
    /\ FeedbackInit

\* flush(isLast) called with the buffer being q, up to `await
\* compressToBase64`; byStop tells that stop() awaits it.
RecFlush(q, isLast, byStop) ==
    IF RecFlushProceeds(recDestroyed, recIsFlushing, q)
    THEN /\ recIsFlushing' = TRUE
         /\ recEvents' = <<>>
         /\ recInflight' = <<[events |-> q, isLast |-> isLast, phase |-> "compress",
                              byStop |-> byStop, sessionId |-> 0, chunkIndex |-> 0]>>
    ELSE /\ recEvents' = q
         /\ UNCHANGED <<recIsFlushing, recInflight>>

\* start(), up to `await import("rrweb")`.
RecStart ==
    /\ startCalls < MaxStarts
    /\ startCalls' = startCalls + 1
    /\ lastOp' = "start"
    /\ recOnError' = FALSE
    /\ RecordingFrame
    /\ sessionId' = sessionId
    /\ SendsNothing
    /\ starting' = IF isRecording \/ recDestroyed THEN starting ELSE starting + 1
    /\ UNCHANGED <<recEvents, chunkIndex, isRecording, recIsFlushing, recDestroyed,
                   stopFn, flushTimer, maxTimers, recInflight, recNext, accepted, recorders, staleTimers>>

\* start() after the import settled: the recording is set up, or the catch
\* block runs.
ImportSettles ==
    \E ok \in BOOLEAN :
        /\ starting > 0
        /\ starting' = starting - 1
        /\ lastOp' = "started"
        /\ RecordingFrame
        /\ sessionId' = sessionId
        /\ chunkSent' = <<>>
        /\ recOnError' = ~ok
        /\ IF ok
           THEN /\ isRecording' = TRUE
                /\ recEvents' = <<>>
                /\ chunkIndex' = 0
                /\ stopFn' = TRUE
                /\ recorders' = recorders + 1
                /\ flushTimer' = TRUE
                /\ maxTimers' = maxTimers + 1
                /\ staleTimers' = IF isRecording THEN staleTimers ELSE maxTimers
                /\ lastMark' = "none"
           ELSE /\ isRecording' = FALSE
                /\ UNCHANGED <<recEvents, chunkIndex, stopFn, flushTimer, maxTimers,
                               lastMark, recorders, staleTimers>>
        /\ UNCHANGED <<recIsFlushing, recDestroyed, recInflight, recNext,
                       startCalls, accepted>>

\* The body of stop().
StopBody ==
    IF ~isRecording \/ recDestroyed
    THEN UNCHANGED <<recEvents, isRecording, recIsFlushing, stopFn, flushTimer,
                     recInflight, recorders>>
    ELSE /\ stopFn' = FALSE
         /\ recorders' = IF stopFn THEN recorders - 1 ELSE recorders
         /\ flushTimer' = FALSE
         /\ RecFlush(recEvents, TRUE, TRUE)
         /\ isRecording' = RecFlushProceeds(recDestroyed, recIsFlushing, recEvents)

\* stop() called by the owner: up to the await inside flush(true), or, when
\* flush(true) returns at once, to the end.
RecStop ==
    /\ lastOp' = "stop"
    /\ recOnError' = FALSE
    /\ RecordingFrame
    /\ sessionId' = sessionId
    /\ SendsNothing
    /\ StopBody
    /\ UNCHANGED <<chunkIndex, recDestroyed, starting, maxTimers, recNext,
                   startCalls, accepted, staleTimers>>

\* The max-duration timeout armed by start().  The timeouts have the same
\* delay, so the one that fires is the one armed first.
MaxDuration ==
    /\ maxTimers > 0
    /\ maxTimers' = maxTimers - 1
    /\ staleTimers' = IF staleTimers > 0 THEN staleTimers - 1 ELSE 0
    /\ lastOp' = "maxDuration"
    /\ recOnError' = FALSE
    /\ RecordingFrame
    /\ sessionId' = sessionId
    /\ SendsNothing
    /\ IF isRecording
       THEN StopBody
       ELSE UNCHANGED <<recEvents, isRecording, recIsFlushing, stopFn, flushTimer,
                        recInflight, recorders>>
    /\ UNCHANGED <<chunkIndex, recDestroyed, starting, recNext, startCalls,
                   accepted>>

\* handleEvent(event), called by rrweb while it is emitting.
HandleEvent ==
    /\ recorders > 0
    /\ recNext <= MaxRecEvents
    /\ recNext' = recNext + 1
    /\ lastOp' = "event"
    /\ recOnError' = FALSE
    /\ RecordingFrame
    /\ sessionId' = sessionId
    /\ SendsNothing
    /\ IF recDestroyed \/ ~isRecording
       THEN UNCHANGED <<recEvents, recIsFlushing, recInflight>>
       ELSE LET q == Append(recEvents, recNext) IN
            IF Len(q) >= MaxBuffer
            THEN RecFlush(q, FALSE, FALSE)
            ELSE /\ recEvents' = q
                 /\ UNCHANGED <<recIsFlushing, recInflight>>
    /\ UNCHANGED <<chunkIndex, isRecording, recDestroyed, stopFn, flushTimer,
                   starting, maxTimers, startCalls, accepted, recorders, staleTimers>>

\* The setInterval callback of startFlushTimer().
RecTimerTick ==
    /\ flushTimer
    /\ lastOp' = "recTimer"
    /\ recOnError' = FALSE
    /\ RecordingFrame
    /\ sessionId' = sessionId
    /\ SendsNothing
    /\ IF Len(recEvents) > 0
       THEN RecFlush(recEvents, FALSE, FALSE)
       ELSE UNCHANGED <<recEvents, recIsFlushing, recInflight>>
    /\ UNCHANGED <<chunkIndex, isRecording, recDestroyed, stopFn, flushTimer,
                   starting, maxTimers, recNext, startCalls, accepted, recorders, staleTimers>>

\* flush(isLast) called by the owner.
RecCallerFlush ==
    \E isLast \in BOOLEAN :
        /\ lastOp' = "recFlush"
        /\ recOnError' = FALSE
        /\ RecordingFrame
        /\ sessionId' = sessionId
        /\ SendsNothing
        /\ RecFlush(recEvents, isLast, FALSE)
        /\ UNCHANGED <<chunkIndex, isRecording, recDestroyed, stopFn, flushTimer,
                       starting, maxTimers, recNext, startCalls, accepted, recorders, staleTimers>>

\* Variant: flush() rethrowing, the stop() that awaited it never reaching
\* `this.isRecording = false`.
RecFlushFails_Rethrows ==
    /\ recEvents' = Requeue(recInflight[1].events, recEvents)
    /\ recOnError' = TRUE
    /\ recIsFlushing' = FALSE
    /\ recInflight' = <<>>
    /\ isRecording' = isRecording
    /\ UNCHANGED <<chunkIndex, accepted>>

\* The catch and finally blocks of flush(), then the rest of the stop() that
\* awaited it.
RecFlushFails ==
    /\ recEvents' = Requeue(recInflight[1].events, recEvents)
    /\ recOnError' = TRUE
    /\ recIsFlushing' = FALSE
    /\ recInflight' = <<>>
    /\ isRecording' = IF recInflight[1].byStop THEN FALSE ELSE isRecording
    /\ UNCHANGED <<chunkIndex, accepted>>

\* `await compressToBase64(serialized)` settles: the chunk is built from the
\* session id and the chunk index of this moment and handed to fetch, or the
\* compression threw.
CompressSettles ==
    \E ok \in BOOLEAN :
        /\ recInflight # <<>>
        /\ recInflight[1].phase = "compress"
        /\ lastOp' = "compressed"
        /\ RecordingFrame
        /\ sessionId' = sessionId
        /\ IF ok
           THEN LET c == Chunk(sessionId, chunkIndex, recInflight[1].events,
                               recInflight[1].isLast, "upload") IN
                /\ recInflight' = <<[recInflight[1] EXCEPT !.phase = "upload",
                                                            !.sessionId = sessionId,
                                                            !.chunkIndex = chunkIndex]>>
                /\ Sends(c)
                /\ recOnError' = FALSE
                /\ UNCHANGED <<recEvents, chunkIndex, isRecording, recIsFlushing,
                               accepted>>
           ELSE /\ SendsNothing
                /\ RecFlushFails
        /\ UNCHANGED <<recDestroyed, stopFn, flushTimer, starting, maxTimers,
                       recNext, startCalls, recorders, staleTimers>>

\* `await this.uploadChunk(chunk)` settles: chunkIndex++ and the finally
\* block, or the catch and finally blocks; then the rest of the stop() that
\* awaited the flush.
UploadSettles ==
    \E ok \in BOOLEAN :
        /\ recInflight # <<>>
        /\ recInflight[1].phase = "upload"
        /\ lastOp' = "uploaded"
        /\ RecordingFrame
        /\ sessionId' = sessionId
        /\ SendsNothing
        /\ IF ok
           THEN /\ chunkIndex' = chunkIndex + 1
                /\ recOnError' = FALSE
                /\ accepted' = Append(accepted,
                                      Chunk(recInflight[1].sessionId,
                                            recInflight[1].chunkIndex,
                                            recInflight[1].events,
                                            recInflight[1].isLast, "upload"))
                /\ recIsFlushing' = FALSE
                /\ recInflight' = <<>>
                /\ isRecording' = IF recInflight[1].byStop THEN FALSE
                                  ELSE isRecording
                /\ UNCHANGED recEvents
           ELSE RecFlushFails
        /\ UNCHANGED <<recDestroyed, stopFn, flushTimer, starting, maxTimers,
                       recNext, startCalls, recorders, staleTimers>>

\* destroy(), with sendBeaconFlush(): the buffer is sent once more, as it is,
\* by a keepalive fetch whose outcome nobody awaits.
RecDestroy ==
    /\ lastOp' = "recDestroy"
    /\ recOnError' = FALSE
    /\ RecordingFrame
    /\ sessionId' = sessionId
    /\ IF recDestroyed
       THEN /\ SendsNothing
            /\ UNCHANGED <<recDestroyed, stopFn, flushTimer, accepted, recorders>>
       ELSE /\ recDestroyed' = TRUE
            /\ IF isRecording
               THEN /\ stopFn' = FALSE
                    /\ recorders' = IF stopFn THEN recorders - 1 ELSE recorders
                    /\ flushTimer' = FALSE
                    /\ IF Len(recEvents) > 0
                       THEN LET c == Chunk(sessionId, chunkIndex, recEvents, TRUE,
                                           "keepalive") IN
                            /\ Sends(c)
                            /\ accepted' = Append(accepted, c)
                       ELSE /\ SendsNothing
                            /\ accepted' = accepted
               ELSE /\ SendsNothing
                    /\ UNCHANGED <<stopFn, flushTimer, accepted, recorders>>
    /\ UNCHANGED <<recEvents, chunkIndex, isRecording, recIsFlushing, starting,
                   maxTimers, recInflight, recNext, startCalls, staleTimers>>

\* The session expires while the recording goes on: updateActivity calls
\* startNewSession(), and getSessionId() returns a new id from then on.
SessionRollover ==
    /\ sessionId < StoredSessionId0 + MaxRollovers
    /\ sessionId' = sessionId + 1
    /\ lastOp' = "rollover"
    /\ recOnError' = FALSE
    /\ RecordingFrame
    /\ SendsNothing
    /\ UNCHANGED <<recEvents, chunkIndex, isRecording, recIsFlushing, recDestroyed,
                   stopFn, flushTimer, starting, maxTimers, recInflight, recNext,
                   startCalls, accepted, recorders, staleTimers>>

NextRec ==
    \/ RecStart
    \/ ImportSettles
    \/ RecStop
    \/ MaxDuration
    \/ HandleEvent
    \/ RecTimerTick
    \/ RecCallerFlush
    \/ CompressSettles
    \/ UploadSettles
    \/ RecDestroy
    \/ SessionRollover

SpecRec == InitRec /\ [][NextRec]_vars

\* The browser runs a timeout that is due, and a pending compression or
\* fetch settles.
SpecRecFair ==
    /\ SpecRec
    /\ WF_vars(MaxDuration)
    /\ WF_vars(CompressSettles)
    /\ WF_vars(UploadSettles)

\* ------------------------------------------------------- ExperimentClient
\* src/src/experiments/index.ts.  One action is one public method up to its
\* first fetch, or the part of it that runs when a fetch settles.

\* What the ExperimentClient leaves alone outside itself.
ExperimentFrame ==
    /\ UNCHANGED batcherVars
    /\ UNCHANGED recordingVars
    /\ UNCHANGED hashVars
    /\ UNCHANGED feedbackVars
    /\ UNCHANGED sessionVars
    /\ isFirstBatch' = isFirstBatch

\* refreshConfigIfNeeded(): `this.configCache && now - this.configCacheTime <
\* this.CONFIG_CACHE_TTL`
ConfigIsFresh(cache, t, cacheTime) ==
    cache.present /\ t - cacheTime < CONFIG_CACHE_TTL

\* getVariation(): the variation of experiment k with key v in the config
\* cache, 0 when the cache, the experiment or the variation is missing.
ConfigVariation(cache, k, v) ==
    IF cache.present /\ v \in cache.experiments[k] THEN v ELSE 0

\* track(): `if (!assignment) return {success: false, ...}`
TrackProceeds(assignment) == assignment # 0

\* saveCachedAssignments(): defaultStorage.set ignores a storage that fails.
SavedAssignments(a) == IF storageOK THEN a ELSE storedAssignments

\* What the server's experiment list can hold: each experiment is missing
\* or has every variation.
ServerConfigs == [Keys -> {{}, Variations}]

\* How the fetch of assign() and the reading of its body can end: "error" is
\* a rejected fetch, an abort by the timeout or a body that does not parse;
\* v = 0 is a body with assigned = false.
AssignResponses ==
    {[kind |-> "error", v |-> 0], [kind |-> "non2xx", v |-> 0]}
        \cup {[kind |-> "ok", v |-> v] : v \in 0..MaxVariations}

\* Likewise for track(): success is the field of the parsed body.
TrackResponses ==
    {[kind |-> "error", success |-> "undefined"],
     [kind |-> "non2xx", success |-> "false"],
     [kind |-> "non2xx", success |-> "undefined"],
     [kind |-> "ok", success |-> "true"]}

\* Likewise for fetchConfig(): cfg is the experiments field of the body.
ConfigResponses ==
    {[kind |-> "error", success |-> "undefined", cfg |-> NoConfig.experiments],
     [kind |-> "non2xx", success |-> "false", cfg |-> NoConfig.experiments],
     [kind |-> "non2xx", success |-> "undefined", cfg |-> NoConfig.experiments]}
        \cup {[kind |-> "ok", success |-> "true", cfg |-> c] : c \in ServerConfigs}

\* A call suspended at a fetch: the public method (top), the experiment, the
\* fetch it waits for (phase), the `cached` and `now` locals, and what C27
\* needs to know about the call when it resolves.
Call(top, k, phase, cached, fresh) ==
    [top |-> top, key |-> k, phase |-> phase, cached |-> cached, t0 |-> now,
     prev |-> IF k = 0 THEN 0 ELSE prevVariation[k], fresh |-> fresh,
     stale |-> FALSE]

\* An ExperimentClient just constructed without options.visitorId on a page
\* whose storage holds a visitor id and, under the assignments key, nothing,
\* the assignments an earlier page saved, the text "null" or a text that is
\* not JSON: loadCachedAssignments() has read it if storage works.
InitExp ==
    /\ batchSize = 1
    /\ transport = "none"
    /\ BatcherInit
    /\ isFirstBatch = TRUE
    /\ lastOp = "init"
    /\ now = 0
    /\ timeout = 1
    /\ storageOK \in BOOLEAN
    /\ storedVisitorId = StoredVisitorId0
    /\ storedSession = NoSession
    /\ smAlive = FALSE
    /\ sessionId = 0
    /\ visitorId = 0
    /\ userIdentifier = 0
    /\ lastActivity = 0
    /\ ecAlive = TRUE
    /\ ecVisitorId = IF storageOK THEN StoredVisitorId0 ELSE 1
    /\ ecExplicit = FALSE
    /\ nextUuid = IF storageOK THEN 1 ELSE 2
    /\ result = 0
    /\ resetSinceSM = FALSE
    /\ RecordingInit
    /\ storedAssignments \in {NoAssignments,
                              [k \in Keys |-> IF k = 1 THEN 1 ELSE 0],
                              NullAssignments, NotJson}
    /\ activeExperiments =
         IF storageOK THEN LoadCachedAssignments(storedAssignments)
         ELSE NoAssignments
    /\ configCache = NoConfig
    /\ configCacheTime = 0
    /\ ecUserIdentifier = 0
    /\ calls = <<>>
    /\ expResult = Pending("none", 0)
    /\ prevVariation = NoAssignments
    /\ HashInit
    /\ FeedbackInit

\* getVariation(k) up to its first fetch, or to its return when the cached
\* assignment is found in a fresh config snapshot, or to the TypeError of
\* its first line when activeExperiments is null.
GetVariation ==
    \E k \in Keys :
        LET cached == activeExperiments[k]
            fresh == ConfigIsFresh(configCache, now, configCacheTime)
            found == IF cached # 0
                     THEN ConfigVariation(configCache, k, cached) ELSE 0
        IN  /\ ecAlive
            /\ lastOp' = "getVariation"
            /\ ExperimentFrame
            /\ UNCHANGED <<activeExperiments, storedAssignments, configCache,
                           configCacheTime, ecUserIdentifier>>
            /\ IF IsNull(activeExperiments)
               THEN /\ expResult' = Rejected("getVariation", k)
                    /\ UNCHANGED <<prevVariation, calls>>
               ELSE
               IF cached # 0 /\ fresh /\ found # 0
               THEN /\ expResult' = ReturnedVariation(k, found, "none",
                                                      prevVariation[k], fresh)
                    /\ prevVariation' = [prevVariation EXCEPT ![k] = found]
                    /\ calls' = calls
               ELSE /\ Len(calls) < MaxCalls
                    /\ calls' = Append(calls,
                          Call("getVariation", k,
                               IF cached # 0 /\ ~fresh THEN "config" ELSE "assign",
                               cached, fresh))
                    /\ expResult' = Pending("getVariation", k)
                    /\ prevVariation' = prevVariation

\* assign(k) up to its fetch.
Assign ==
    \E k \in Keys :
        /\ ecAlive
        /\ Len(calls) < MaxCalls
        /\ lastOp' = "assign"
        /\ ExperimentFrame
        /\ calls' = Append(calls, Call("assign", k, "assign", 0, FALSE))
        /\ expResult' = Pending("assign", k)
        /\ UNCHANGED <<activeExperiments, storedAssignments, configCache,
                       configCacheTime, ecUserIdentifier, prevVariation>>

\* track(k, ...) up to its fetch, or to its return when there is no
\* assignment, or to the TypeError of its first line when activeExperiments
\* is null.
Track ==
    \E k \in Keys :
        /\ ecAlive
        /\ lastOp' = "track"
        /\ ExperimentFrame
        /\ IF IsNull(activeExperiments)
           THEN /\ calls' = calls
                /\ expResult' = Rejected("track", k)
           ELSE
           IF TrackProceeds(activeExperiments[k])
           THEN /\ Len(calls) < MaxCalls
                /\ calls' = Append(calls, Call("track", k, "track", 0, FALSE))
                /\ expResult' = Pending("track", k)
           ELSE /\ calls' = calls
                /\ expResult' = Returned("track", k, "false", FALSE, 0,
                                         "undefined", "none")
        /\ UNCHANGED <<activeExperiments, storedAssignments, configCache,
                       configCacheTime, ecUserIdentifier, prevVariation>>

\* fetchConfig() called by the page, up to its fetch.
FetchConfig ==
    /\ ecAlive
    /\ Len(calls) < MaxCalls
    /\ lastOp' = "fetchConfig"
    /\ ExperimentFrame
    /\ calls' = Append(calls, Call("fetchConfig", 0, "config", 0, FALSE))
    /\ expResult' = Pending("fetchConfig", 0)
    /\ UNCHANGED <<activeExperiments, storedAssignments, configCache,
                   configCacheTime, ecUserIdentifier, prevVariation>>

\* identify(userIdentifier)
IdentifyEC ==
    /\ ecAlive
    /\ lastOp' = "identifyEC"
    /\ ExperimentFrame
    /\ ecUserIdentifier' = 1
    /\ expResult' = Pending("identify", 0)
    /\ UNCHANGED <<activeExperiments, storedAssignments, configCache,
                   configCacheTime, calls, prevVariation>>

\* The fetch of fetchConfig() settles.  Called by the page, fetchConfig()
\* returns the parsed body as it is, or {success: false, experiments: []}
\* from its catch block.  Called by refreshConfigIfNeeded(), the cache is
\* replaced when the body has a truthy success, and getVariation() goes on:
\* it returns the variation found in the cache or calls assign().
ConfigSettles ==
    \E i \in DOMAIN calls : \E r \in ConfigResponses :
        LET c == calls[i]
            cache == IF r.success = "true"
                     THEN [present |-> TRUE, experiments |-> r.cfg]
                     ELSE configCache
            found == ConfigVariation(cache, c.key, c.cached)
        IN  /\ c.phase = "config"
            /\ lastOp' = "configSettled"
            /\ ExperimentFrame
            /\ UNCHANGED <<activeExperiments, storedAssignments,
                           ecUserIdentifier>>
            /\ IF c.top = "fetchConfig"
               THEN /\ expResult' =
                         IF r.kind = "error"
                         THEN Returned("fetchConfig", 0, "false", FALSE, 0,
                                       "empty", r.kind)
                         ELSE Returned("fetchConfig", 0, r.success, FALSE, 0,
                                       IF r.kind = "ok" THEN "list"
                                       ELSE "undefined", r.kind)
                    /\ calls' = RemoveAt(calls, i)
                    /\ UNCHANGED <<configCache, configCacheTime, prevVariation>>
               ELSE /\ configCache' = cache
                    /\ configCacheTime' = IF r.success = "true" THEN c.t0
                                          ELSE configCacheTime
                    /\ IF found # 0
                       THEN /\ expResult' = ReturnedVariation(c.key, found, r.kind,
                                                              c.prev, c.fresh)
                            /\ prevVariation' =
                                 [prevVariation EXCEPT
                                    ![c.key] = IF c.stale THEN 0 ELSE found]
                            /\ calls' = RemoveAt(calls, i)
                       ELSE /\ expResult' = Pending("getVariation", c.key)
                            /\ prevVariation' = prevVariation
                            /\ calls' = [calls EXCEPT ![i].phase = "assign"]

\* The fetch of assign() settles: a 2xx body with assigned and variation is
\* cached and saved; assign() returns the body, or the not-assigned result
\* for a non-2xx status and from its catch block, which also catches the
\* TypeError of writing the entry when activeExperiments is null.
\* getVariation() returns the variation of the result, or null.
AssignSettles ==
    \E i \in DOMAIN calls : \E r \in AssignResponses :
        LET c == calls[i]
            threw == r.kind = "ok" /\ r.v # 0 /\ IsNull(activeExperiments)
            v == IF r.kind = "ok" /\ ~threw THEN r.v ELSE 0
            a == IF v # 0 THEN [activeExperiments EXCEPT ![c.key] = v]
                 ELSE activeExperiments
        IN  /\ c.phase = "assign"
            /\ lastOp' = "assignSettled"
            /\ ExperimentFrame
            /\ activeExperiments' = a
            /\ storedAssignments' = IF v # 0 THEN SavedAssignments(a)
                                    ELSE storedAssignments
            /\ calls' = RemoveAt(calls, i)
            /\ UNCHANGED <<configCache, configCacheTime, ecUserIdentifier>>
            /\ IF c.top = "assign"
               THEN /\ expResult' =
                         [Returned("assign", c.key,
                                   IF r.kind = "ok" /\ ~threw THEN "true"
                                   ELSE "false",
                                   v # 0, v, "undefined", r.kind)
                            EXCEPT !.received = r.v]
                    /\ prevVariation' = prevVariation
               ELSE /\ expResult' =
                         [ReturnedVariation(c.key, v, r.kind, c.prev, c.fresh)
                            EXCEPT !.received = r.v]
                    /\ prevVariation' =
                         [prevVariation EXCEPT
                            ![c.key] = IF c.stale THEN 0 ELSE v]

\* The fetch of track() settles: track() returns the parsed body as it is,
\* or {success: false, error} from its catch block.
TrackSettles ==
    \E i \in DOMAIN calls : \E r \in TrackResponses :
        LET c == calls[i]
        IN  /\ c.phase = "track"
            /\ lastOp' = "trackSettled"
            /\ ExperimentFrame
            /\ calls' = RemoveAt(calls, i)
            /\ expResult' = Returned("track", c.key,
                                     IF r.kind = "error" THEN "false"
                                     ELSE r.success,
                                     FALSE, 0, "undefined", r.kind)
            /\ UNCHANGED <<activeExperiments, storedAssignments, configCache,
                           configCacheTime, ecUserIdentifier, prevVariation>>

NextExp ==
    \/ Tick
    \/ ResetEC
    \/ GetVariation
    \/ Assign
    \/ Track
    \/ FetchConfig
    \/ IdentifyEC
    \/ ConfigSettles
    \/ AssignSettles
    \/ TrackSettles

SpecExp == InitExp /\ [][NextExp]_vars

TypeOKExp ==
    /\ activeExperiments \in [Keys -> 0..MaxVariations] \cup {NullAssignments}
    /\ storedAssignments \in
         [Keys -> 0..MaxVariations] \cup {NullAssignments, NotJson}
    /\ prevVariation \in [Keys -> 0..MaxVariations]
    /\ configCache.present \in BOOLEAN
    /\ configCache.experiments \in ServerConfigs \cup {NoConfig.experiments}
    /\ configCacheTime \in 0..MaxTime
    /\ Len(calls) <= MaxCalls

\* ----------------------------------------------------------- hashToBucket
\* src/unnamed/part_003.  The 32-bit operations of the source work on the two
\* 16-bit halves of a word, so that no intermediate value leaves the
\* integers of the model checker.

\* a ^ b on n-bit operands
RECURSIVE XorBits(_, _, _)
XorBits(a, b, n) ==
    IF n = 0 THEN 0
    ELSE (((a % 2) + (b % 2)) % 2) + 2 * XorBits(a \div 2, b \div 2, n - 1)

RECURSIVE Pow2(_)
Pow2(n) == IF n = 0 THEN 1 ELSE 2 * Pow2(n - 1)

\* x ^ y
Xor32(x, y) == Word(XorBits(x.hi, y.hi, 16), XorBits(x.lo, y.lo, 16))

\* a * b modulo 2^16, for 16-bit a and b
MulMod16(a, b) ==
    ((a % 256) * b + ((a \div 256) * (b % 256)) * 256) % 65536

\* Math.imul(x, y): the low 32 bits of the product
Imul(x, y) ==
    LET p0 == (x.lo % 256) * (y.lo % 256)
        p1 == (x.lo \div 256) * (y.lo % 256) + (x.lo % 256) * (y.lo \div 256)
        p2 == (x.lo \div 256) * (y.lo \div 256)
        t  == p0 + (p1 % 256) * 256
    IN  Word((p2 + (p1 \div 256) + (t \div 65536)
                 + MulMod16(x.hi, y.lo) + MulMod16(x.lo, y.hi)) % 65536,
             t % 65536)

\* (x << n) | (x >>> (32 - n)), 0 < n < 16
Rotl(x, n) ==
    Word(((x.hi * Pow2(n)) % 65536) + (x.lo \div Pow2(16 - n)),
         ((x.lo * Pow2(n)) % 65536) + (x.hi \div Pow2(16 - n)))

\* x >>> n, 0 < n <= 16
Shr(x, n) ==
    Word(x.hi \div Pow2(n),
         (x.hi % Pow2(n)) * Pow2(16 - n) + (x.lo \div Pow2(n)))

\* x + y, brought back to 32 bits by the next bitwise operation
Add32(x, y) ==
    Word((x.hi + y.hi + ((x.lo + y.lo) \div 65536)) % 65536,
         (x.lo + y.lo) % 65536)

\* c1 = 0xcc9e2d51
MurmurC1 == Word(52382, 11601)

\* c2 = 0x1b873593
MurmurC2 == Word(7047, 13715)

\* 0xe6546b64
MurmurN == Word(58964, 27492)

\* 0x85ebca6b
MurmurF1 == Word(34283, 51819)

\* 0xc2b2ae35
MurmurF2 == Word(49842, 44597)

\* Variant: charCodeAt(i) with no `& 0xff`, cut to the 16 bits that fit a half.
CharByte_Whole(key, i) == key[i]

\* key.charCodeAt(i) & 0xff, the index counted from 1
CharByte(key, i) == key[i] % 256

\* The k1 of a 4-character block that begins at i
BlockK(key, i) ==
    Word(CharByte(key, i + 3) * 256 + CharByte(key, i + 2),
         CharByte(key, i + 1) * 256 + CharByte(key, i))

\* k1 = imul(k1, c1); k1 = rotl(k1, 15); k1 = imul(k1, c2): the successive
\* values of k1, in the order of the statements
MixK(k1) ==
    LET a == Imul(k1, MurmurC1)
        b == Rotl(a, 15)
        c == Imul(b, MurmurC2)
    IN  <<a, b, c>>[3]

\* The while loop of murmur3 from index i on, h1 being the hash so far; one
\* iteration is the successive values of k1 and h1
RECURSIVE MurmurBody(_, _, _)
MurmurBody(key, i, h1) ==
    IF i + 3 > Len(key) THEN h1
    ELSE LET k == MixK(BlockK(key, i))
             a == Xor32(h1, k)
             b == Rotl(a, 13)
             c == Add32(Imul(b, Word(0, 5)), MurmurN)
         IN  MurmurBody(key, i + 4, <<k, a, b, c>>[4])

\* The switch on the remainder: the 1 to 3 characters from i on
MurmurTail(key, i, h1) ==
    LET remainder == Len(key) % 4
        k1 == Word(IF remainder >= 3 THEN CharByte(key, i + 2) ELSE 0,
                   (IF remainder >= 2 THEN CharByte(key, i + 1) * 256 ELSE 0)
                       + (IF remainder >= 1 THEN CharByte(key, i) ELSE 0))
        k == MixK(k1)
    IN  IF remainder = 0 THEN h1 ELSE <<k, Xor32(h1, k)>>[2]

\* The finalization of murmur3 after `h1 ^= key.length`: the successive
\* values of h1
MurmurFinal(h) ==
    LET a == Xor32(h, Shr(h, 16))
        b == Imul(a, MurmurF1)
        c == Xor32(b, Shr(b, 13))
        d == Imul(c, MurmurF2)
        e == Xor32(d, Shr(d, 16))
    IN  <<a, b, c, d, e>>[5]

\* murmur3(key) with the default seed 0: h1 after the loop, after the switch,
\* after `h1 ^= key.length` and after the finalization
murmur3(key) ==
    LET bytes == Len(key) - (Len(key) % 4)
        body == MurmurBody(key, 1, Word(0, 0))
        tail == MurmurTail(key, bytes + 1, body)
        len == Xor32(tail, Word(Len(key) \div 65536, Len(key) % 65536))
    IN  <<body, tail, len, MurmurFinal(len)>>[4]

\* Variant: the word read as a signed 32-bit integer (no `>>> 0`), modulo m
\* with the sign of the dividend as `%` gives it.
Uint32Mod_Signed(w, m) ==
    LET u == ((w.hi % m) * (65536 % m) + (w.lo % m)) % m
        p == ((65536 % m) * (65536 % m)) % m
    IN  IF w.hi >= 32768 THEN 0 - ((p - u + m) % m) ELSE u

\* hash % m for the unsigned hash that `h1 >>> 0` returns
Uint32Mod(w, m) == ((w.hi % m) * (65536 % m) + (w.lo % m)) % m

\* The number of buckets: `hash % 100`
Buckets == 100

\* The ":" between the parts of the hash input
Colon == 58

\* `${experimentKey}:${visitorId}${salt ? `:${salt}` : ""}`
HashInput(k, v, salt) ==
    k \o <<Colon>> \o v \o (IF salt # <<>> THEN <<Colon>> \o salt ELSE <<>>)

hashToBucket(k, v, salt) == Uint32Mod(murmur3(HashInput(k, v, salt)), Buckets)

\* The code units the arguments are made of: "A", "z" and U+0141.
HashChars == {65, 122, 321}

RECURSIVE StringsOfLen(_)
StringsOfLen(n) ==
    IF n = 0 THEN {<<>>}
    ELSE {Append(t, c) : t \in StringsOfLen(n - 1), c \in HashChars}

HashStrings == UNION {StringsOfLen(n) : n \in 0..MaxHashLen}

\* Init of the bucketing function: the arguments of the call to come.
InitHash ==
    /\ batchSize = 1
    /\ transport = "none"
    /\ BatcherInit
    /\ isFirstBatch = TRUE
    /\ lastOp = "init"
    /\ SessionStarted
    /\ RecordingInit
    /\ ExperimentInit
    /\ hKey \in HashStrings
    /\ hVisitor \in HashStrings
    /\ hSalt \in HashStrings
    /\ hHash = Word(0, 0)
    /\ hBucket = 0
    /\ FeedbackInit

\* hashToBucket(hKey, hVisitor, hSalt)
HashToBucket ==
    /\ lastOp' = "hashToBucket"
    /\ hHash' = murmur3(HashInput(hKey, hVisitor, hSalt))
    /\ hBucket' = hashToBucket(hKey, hVisitor, hSalt)
    /\ UNCHANGED <<hKey, hVisitor, hSalt>>
    /\ UNCHANGED batcherVars
    /\ UNCHANGED sessionVars
    /\ UNCHANGED recordingVars
    /\ UNCHANGED experimentVars
    /\ UNCHANGED feedbackVars
    /\ isFirstBatch' = isFirstBatch

NextHash == HashToBucket

SpecHash == InitHash /\ [][NextHash]_vars

\* ----------------------------------------------------------------- Echoes
\* src/src/client.ts.  send() up to its fetch, and the rest of it when the
\* fetch settles.

\* What the feedback client leaves alone outside itself.
FeedbackFrame ==
    /\ UNCHANGED batcherVars
    /\ UNCHANGED sessionVars
    /\ UNCHANGED recordingVars
    /\ UNCHANGED experimentVars
    /\ UNCHANGED hashVars
    /\ isFirstBatch' = isFirstBatch

\* An error thrown inside send(): its name, and for an EchoesError its code
\* and statusCode.
Thrown(name, code, statusCode) ==
    [name |-> name, code |-> code, statusCode |-> statusCode]

\* The HTTP statuses the endpoint answers with.
Statuses == {200, 201, 400, 401, 403, 404, 429, 500, 503}

\* response.ok
ResponseOk(status) == status \in 200..299

\* handleErrorResponse(status, data): the EchoesError it throws
handleErrorResponse(status) ==
    CASE status = 400 -> Thrown("EchoesError", "INVALID_PAYLOAD", status)
      [] status = 401 -> Thrown("EchoesError", "INVALID_API_KEY", status)
      [] status = 403 -> Thrown("EchoesError", "INVALID_API_KEY", status)
      [] status = 429 -> Thrown("EchoesError", "RATE_LIMITED", status)
      [] OTHER -> Thrown("EchoesError", "UNKNOWN", status)

\* The catch block of send(): what it throws for an error thrown in the try
\* block.
Caught(error) ==
    IF error.name = "AbortError" THEN SendResult("rejected", "TIMEOUT", 0, 0)
    ELSE SendResult("rejected", "NETWORK_ERROR", 0, 0)

\* validateParams(params): category and message are both acceptable
ParamsValid(category, message) ==
    /\ category \in {"bug", "feature", "question", "praise"}
    /\ message = "text"

\* Init of the feedback client.
InitSend ==
    /\ batchSize = 1
    /\ transport = "none"
    /\ BatcherInit
    /\ isFirstBatch = TRUE
    /\ lastOp = "init"
    /\ SessionStarted
    /\ RecordingInit
    /\ ExperimentInit
    /\ HashInit
    /\ FeedbackInit

\* send(params) up to `await fetch`, or to the throw of validateParams.
Send ==
    \E category \in {"bug", "feature", "question", "praise", "other"} :
    \E message \in {"text", "", " "} :
        /\ fbPending = <<>>
        /\ fbCalls < MaxSends
        /\ fbCalls' = fbCalls + 1
        /\ lastOp' = "send"
        /\ FeedbackFrame
        /\ IF ParamsValid(category, message)
           THEN /\ fbPending' = <<[category |-> category]>>
                /\ fbResult' = SendResult("pending", "", 0, 0)
           ELSE /\ fbPending' = <<>>
                /\ fbResult' = SendResult("rejected", "INVALID_PAYLOAD", 0, 0)

\* The fetch resolves with a response of the given status, whose body parses
\* or does not: a 2xx body is returned, a non-2xx one goes to
\* handleErrorResponse, whose throw, like the one of response.json(), is
\* inside the try block.
SendResponds ==
    \E status \in Statuses : \E parses \in BOOLEAN :
        /\ fbPending # <<>>
        /\ fbPending' = <<>>
        /\ lastOp' = "sendResponded"
        /\ FeedbackFrame
        /\ fbCalls' = fbCalls
        /\ fbResult' =
             IF ~parses
             THEN [Caught(Thrown("SyntaxError", "", 0)) EXCEPT !.status = status]
             ELSE IF ResponseOk(status)
                  THEN SendResult("resolved", "", 0, status)
                  ELSE [Caught(handleErrorResponse(status)) EXCEPT
                           !.status = status]

\* The fetch rejects: the request itself failed.
SendFetchFails ==
    /\ fbPending # <<>>
    /\ fbPending' = <<>>
    /\ lastOp' = "sendFailed"
    /\ FeedbackFrame
    /\ fbCalls' = fbCalls
    /\ fbResult' = Caught(Thrown("TypeError", "", 0))

\* The timeout fires before the fetch resolves: controller.abort().
SendTimesOut ==
    /\ fbPending # <<>>
    /\ fbPending' = <<>>
    /\ lastOp' = "sendTimedOut"
    /\ FeedbackFrame
    /\ fbCalls' = fbCalls
    /\ fbResult' = Caught(Thrown("AbortError", "", 0))

NextSend ==
    \/ Send
    \/ SendResponds
    \/ SendFetchFails
    \/ SendTimesOut

SpecSend == InitSend /\ [][NextSend]_vars

\* ================================================================== claims

\* Number of times e occurs in the sequence s.
Count(e, s) == Cardinality({i \in DOMAIN s : s[i] = e})

\* The steps in which flush() is called (by add, the timer, the visibility
\* listener or the owner), as lastOp records them.
FlushTriggers == {"add", "timer", "visibility", "flush"}

\* ---- C1
\* C1 (as stated): every event that was part of a failed flush, once a later
\* flush has succeeded, is in exactly one delivered payload (a successfully
\* delivered batch; a payload handed to the teardown transport in between is
\* counted as delivered too), and the delivered events are in the order in
\* which they were added.
C1_ExactlyOnceAfterRetry ==
    /\ \A e \in succAfterFail : Count(e, delivered) + Count(e, handed) = 1
    /\ Ordered(delivered)

\* C1 (amended): the same for every event of the failed flush that the retry
\* cap of 3 * batchSize did not cut off; no event is in two payloads, and the
\* successfully delivered events are in the order added.
C1_ExactlyOnceUnlessCapped ==
    /\ \A e \in succAfterFail \ capDropped :
          Count(e, delivered) + Count(e, handed) = 1
    /\ \A e \in 1..MaxEvents : Count(e, delivered) + Count(e, handed) <= 1
    /\ Ordered(delivered)

\* A flush failed, and the next flush delivered its events ahead of newer ones.
C1_Witness ==
    /\ lastOp = "flushOk"
    /\ succAfterFail # {}
    /\ succAfterFail \subseteq Range(delivered)
    /\ Range(delivered) # succAfterFail

\* ---- C2
\* C2: a destroy() call on a batcher that is not destroyed and holds events
\* hands every event of the queue and of the retry queue to the teardown
\* transport within that call.
C2_DestroySendsEverything ==
    [][(/\ lastOp' = "destroy"
        /\ ~destroyed
        /\ transport # "none"
        /\ getQueueSize > 0)
       => /\ Len(sent') = 1
          /\ Range(sent'[1].events) = Range(queue) \cup Range(retryQueue)]_vars

\* ---- C3
\* C3: the unload handler on a batcher that is not destroyed hands every event
\* of the queue and of the retry queue to the teardown transport, also when
\* only the retry queue holds events; afterwards getQueueSize() is 0.
C3_UnloadSendsEverything ==
    [][(lastOp' = "unload" /\ ~destroyed)
       => /\ getQueueSize > 0 =>
                /\ Len(sent') = 1
                /\ Range(sent'[1].events) = Range(queue) \cup Range(retryQueue)
          /\ Len(queue') + Len(retryQueue') = 0]_vars

\* ---- C4
\* C4 (as stated): an add() on a batcher that is not destroyed starts no send
\* while the queue stays below batchSize; the add() that makes the queue
\* length reach batchSize starts a send of the queued events in that call.
C4_AddFlushesAtBatchSize ==
    [][(lastOp' = "add" /\ ~destroyed)
       => /\ Len(queue) + 1 < batchSize => sent' = <<>> /\ inflight' = inflight
          /\ Len(queue) + 1 = batchSize =>
                /\ Len(sent') = 1
                /\ Range(queue) \cup {nextId} \subseteq Range(sent'[1].events)]_vars

\* C4 (amended): below batchSize no send is started; the add() that brings the
\* queue length to batchSize or above calls flush(), which starts a send of the
\* retry queue followed by the queue when no delivery is in flight, and starts
\* nothing and keeps the event queued when one is.
C4_AddFlushesUnlessInFlight ==
    [][(lastOp' = "add" /\ ~destroyed)
       => /\ Len(queue) + 1 < batchSize =>
                /\ sent' = <<>>
                /\ inflight' = inflight
                /\ queue' = Append(queue, nextId)
          /\ (Len(queue) + 1 >= batchSize /\ ~isFlushing) =>
                /\ Len(sent') = 1
                /\ sent'[1].events = retryQueue \o Append(queue, nextId)
                /\ sent'[1].via = "fetch"
                /\ queue' = <<>>
          /\ (Len(queue) + 1 >= batchSize /\ isFlushing) =>
                /\ sent' = <<>>
                /\ inflight' = inflight
                /\ queue' = Append(queue, nextId)]_vars

\* The add() that filled the batch started a send of exactly batchSize events.
C4_Witness ==
    /\ lastOp = "add"
    /\ batchSize > 1
    /\ Len(sent) = 1
    /\ Len(sent[1].events) = batchSize
    /\ queue = <<>>

\* ---- C5
\* C5: at most one asynchronous delivery is in progress; a flush() triggered
\* while one is in progress starts no send and takes nothing from the queues;
\* a flush that starts takes the whole queue, so the events added during the
\* previous delivery are part of it.
C5_SingleFlight ==
    [][/\ Len(inflight') <= 1
       /\ (isFlushing /\ lastOp' \in FlushTriggers) =>
             /\ sent' = <<>>
             /\ inflight' = inflight
             /\ retryQueue' = retryQueue
             /\ queue' = IF lastOp' = "add" /\ ~destroyed
                         THEN Append(queue, nextId) ELSE queue
       /\ (lastOp' \in FlushTriggers /\ Len(inflight') > Len(inflight)) =>
             /\ ~isFlushing
             /\ Range(queue) \subseteq Range(inflight'[Len(inflight')].events)
             /\ queue' = <<>>]_vars

\* A flush() was called while a delivery was in flight and events added in the
\* meantime were waiting: nothing was sent, they are still queued.
C5_Witness ==
    /\ isFlushing
    /\ Len(inflight) = 1
    /\ lastOp \in {"timer", "visibility", "flush"}
    /\ Len(queue) >= 2
    /\ sent = <<>>

\* ---- C6
\* C6: in every payload sent, by the asynchronous flush or by the teardown
\* path, the events are in the order in which they were added (so the older
\* events of the retry queue precede those of the live queue).
C6_PayloadInCreationOrder ==
    \A i \in DOMAIN sent : Ordered(sent[i].events)

\* ---- C7
\* C7: once a failed flush has left events in the retry queue, the next flush
\* cycle sends them again: a timer tick on an idle batcher that is not
\* destroyed sends the retry queue, also when no add() was made since.
C7_TimerResendsRetryQueue ==
    [][(/\ lastOp' = "timer"
        /\ retryQueue # <<>>
        /\ ~isFlushing
        /\ ~destroyed)
       => /\ Len(sent') = 1
          /\ Range(retryQueue) \subseteq Range(sent'[1].events)]_vars

\* ---- C8
\* C8 (as stated): when a flush fails, the retry queue afterwards holds
\* exactly the events the flush tried to send, in the same order, none
\* dropped, and onError is invoked once.
C8_RequeuesExactSet ==
    [][lastOp' = "flushFailed"
       => \E i \in DOMAIN inflight :
             /\ inflight' = RemoveAt(inflight, i)
             /\ retryQueue' = inflight[i].events
             /\ onErrorCalls' = onErrorCalls + 1]_vars

\* C8 (amended): when a flush fails, the retry queue afterwards holds the
\* first min(n, 3 * batchSize) of the n events the flush tried to send, in the
\* same order, and onError is invoked once.
C8_RequeuesCappedPrefix ==
    [][lastOp' = "flushFailed"
       => \E i \in DOMAIN inflight :
             LET events == inflight[i].events IN
             /\ inflight' = RemoveAt(inflight, i)
             /\ Len(retryQueue') = Min(Len(events), 3 * batchSize)
             /\ \A k \in 1..Len(retryQueue') : retryQueue'[k] = events[k]
             /\ onErrorCalls' = onErrorCalls + 1]_vars

\* A flush of more than 3 * batchSize events failed and was cut to the cap.
C8_Witness ==
    /\ lastOp = "flushFailed"
    /\ capDropped # {}
    /\ Len(retryQueue) = 3 * batchSize
    /\ onErrorCalls >= 1

\* ---- C9
\* C9: in every reachable state the retry queue holds at most 3 * batchSize
\* events.
C9_RetryQueueBounded ==
    Len(retryQueue) <= 3 * batchSize

\* The retry queue is full.
C9_Witness ==
    Len(retryQueue) = 3 * batchSize

\* ---- C10
\* C10 (as stated): a failing delivery is retried up to 3 times after the
\* initial attempt, so a flush is reported as failed only after its fourth
\* attempt has failed.
C10_FailsAfterThreeRetries ==
    [][lastOp' = "flushFailed"
       => \E i \in DOMAIN inflight :
             /\ inflight' = RemoveAt(inflight, i)
             /\ inflight[i].attempt = 1 + 3]_vars

\* C10 (amended): a delivery makes at most 3 attempts in all (the initial one
\* and up to 2 retries); the wait armed after failed attempt n is n * 1000 ms;
\* the flush is reported as failed (events re-queued, onError called, the
\* in-flight flag cleared) exactly when the third attempt fails, which ends it.
C10_ThreeAttemptsLinearDelay ==
    [][/\ \A i \in DOMAIN inflight' : inflight'[i].attempt <= 3
       /\ lastOp' = "retryWait" =>
             \E i \in DOMAIN inflight :
                /\ inflight' = [inflight EXCEPT ![i].phase = "delay"]
                /\ inflight[i].attempt < 3
                /\ lastDelay' = inflight[i].attempt * 1000
                /\ onErrorCalls' = onErrorCalls
                /\ retryQueue' = retryQueue
       /\ lastOp' = "resend" =>
             \E i \in DOMAIN inflight :
                /\ inflight[i].phase = "delay"
                /\ inflight'[i].attempt = inflight[i].attempt + 1
                /\ Len(sent') = 1
                /\ sent'[1].events = inflight[i].events
       /\ lastOp' = "flushFailed" =>
             \E i \in DOMAIN inflight :
                /\ inflight' = RemoveAt(inflight, i)
                /\ inflight[i].attempt = 3
                /\ onErrorCalls' = onErrorCalls + 1
                /\ ~isFlushing']_vars

\* A flush was reported as failed after its attempts were used up.
C10_Witness ==
    /\ lastOp = "flushFailed"
    /\ onErrorCalls = 1
    /\ ~isFlushing
    /\ inflight = <<>>
    /\ retryQueue # <<>>

\* ---- C11
\* The failure kind of the step that settles in-flight flush i: what the code
\* was awaiting tells which failure it is.
C11_FailureKinds == {"fetch", "errbody", "body"}

C12_DestroyedIsTerminal ==
    [][destroyed
       => /\ destroyed'
          /\ ~timer /\ ~timer'
          /\ lastOp' \in {"add", "flush", "timer", "visibility", "unload", "destroy"}
                => /\ sent' = <<>>
                   /\ queue' = queue
                   /\ retryQueue' = retryQueue
                   /\ inflight' = inflight
                   /\ isFlushing' = isFlushing
                   /\ handed' = handed
                   /\ isFirstBatch' = isFirstBatch
                   /\ onErrorCalls' = onErrorCalls]_vars

\* An event was added to a destroyed batcher whose queue still holds events,
\* and was dropped.
C12_Witness ==
    /\ destroyed
    /\ lastOp = "add"
    /\ queue # <<>>
    /\ \A k \in 1..Len(queue) : queue[k] < nextId - 1
    /\ sent = <<>>

\* ---- C13
\* C13: of the payloads delivered for a (new) session, the first one carries
\* the `session` metadata and no other one does: a payload delivered in a step
\* carries it exactly when no payload was delivered before that step.
C13_SessionMetadataExactlyOnce ==
    [][deliveredNow' # <<>> => (deliveredNow'[1] <=> ~anyDelivered)]_vars

\* ---- C14
\* C14: when a SessionManager is constructed and storage holds a session whose
\* lastActivity is less than timeout before now, the manager takes the stored
\* session id and isFirstBatchForSession() is false; when the stored session
\* is timeout old or older, or absent, or unreadable, the manager takes a
\* newly generated id, different from the stored one, and
\* isFirstBatchForSession() is true.  getSessionId() returns that id.
C14_RestoresFreshSessionOnly ==
    [][/\ lastOp' = "construct"
          => LET s == storedSession IN
             IF storageOK /\ s.kind = "session" /\ now - s.lastActivity < timeout
             THEN /\ sessionId' = s.sessionId
                  /\ ~isFirstBatchForSession'
             ELSE /\ sessionId' \notin {0, s.sessionId, sessionId, visitorId,
                                        storedVisitorId, ecVisitorId}
                  /\ sessionId' # visitorId'
                  /\ isFirstBatchForSession'
       /\ lastOp' = "getSessionId" /\ sessionId # 0
          => result' = sessionId /\ sessionId' = sessionId]_vars

\* A page load found a stored session that had aged, but by less than the
\* timeout, and restored it.
C14_Witness ==
    /\ lastOp = "construct"
    /\ smAlive
    /\ storageOK
    /\ sessionId = storedSession.sessionId
    /\ ~isFirstBatch
    /\ now - lastActivity > 0
    /\ now - lastActivity < timeout

\* ---- C15
\* C15: the session id of an existing SessionManager changes only in an
\* activity signal that arrives more than timeout after the last activity;
\* its visitor id never changes; getSessionId, getVisitorId, touch, identify,
\* clearIdentity, isFirstBatchForSession, markFirstBatchSent and
\* getSessionMetadata change neither.
C15_SessionIdStable ==
    [][smAlive /\ lastOp' # "construct"
       => /\ sessionId' # sessionId
             => lastOp' = "activity" /\ now - lastActivity > timeout
          /\ visitorId' = visitorId
          /\ lastOp' \in {"getSessionId", "getVisitorId", "touch", "identify",
                          "clearIdentity", "isFirstBatchForSession",
                          "markFirstBatchSent", "getSessionMetadata"}
             => sessionId' = sessionId /\ visitorId' = visitorId]_vars

\* identify() was called on a session idle for longer than the timeout, and
\* the session is still there.
C15_Witness ==
    /\ lastOp = "identify"
    /\ smAlive
    /\ userIdentifier = 1
    /\ sessionId # 0
    /\ now - lastActivity > timeout

\* ---- C16
\* C16: the activity listeners and the constructor decide alike for every idle
\* duration d = now - lastActivity: the session is kept iff d < timeout, and
\* otherwise a new session id is taken and the first-batch flag set again.
C16_OneExpiryRule ==
    [][/\ lastOp' = "activity"
          => IF now - lastActivity < timeout
             THEN sessionId' = sessionId
             ELSE sessionId' # sessionId /\ isFirstBatch'
       /\ lastOp' = "construct" /\ storageOK /\ storedSession.kind = "session"
          => IF now - storedSession.lastActivity < timeout
             THEN sessionId' = storedSession.sessionId
             ELSE sessionId' # storedSession.sessionId /\ isFirstBatch']_vars

\* ---- C17
\* C17 (as stated): with working storage, the stored visitor id is written
\* only when none is stored (or by reset()), and every SessionManager, until a
\* reset(), and every ExperimentClient reports the visitor id that is in
\* storage.
C17_EveryClientReportsStoredId ==
    [][/\ storedVisitorId' # storedVisitorId
          => storedVisitorId = 0 \/ lastOp' = "reset"
       /\ storageOK
          => /\ smAlive' /\ ~resetSinceSM' => visitorId' = storedVisitorId'
             /\ ecAlive' => ecVisitorId' = storedVisitorId']_vars

\* C17 (amended): with working storage, the stored visitor id is written only
\* when none is stored (or by reset()), and every SessionManager, until a
\* reset(), and every ExperimentClient constructed without options.visitorId
\* reports the visitor id that is in storage.
C17_VisitorIdCreatedOnce ==
    [][/\ storedVisitorId' # storedVisitorId
          => storedVisitorId = 0 \/ lastOp' = "reset"
       /\ storageOK
          => /\ smAlive' /\ ~resetSinceSM' => visitorId' = storedVisitorId'
             /\ ecAlive' /\ ~ecExplicit' => ecVisitorId' = storedVisitorId']_vars

\* A SessionManager and an ExperimentClient constructed one after the other
\* over an empty storage share the one visitor id that was generated.
C17_Witness ==
    /\ storageOK
    /\ smAlive /\ ecAlive /\ ~ecExplicit /\ ~resetSinceSM
    /\ visitorId = storedVisitorId
    /\ ecVisitorId = storedVisitorId
    /\ storedVisitorId \in 1..MaxIds

\* ---- C18
\* C18: for every session id, the chunk indices of the chunks uploaded with
\* success under it are, in upload order, 0, 1, 2, ...: each such chunk has
\* as its index the number of chunks uploaded under its session id before it.
C18_ChunkIndicesCountUp ==
    \A i \in DOMAIN accepted :
        accepted[i].via = "upload"
        => accepted[i].chunkIndex =
              Cardinality({j \in 1..(i - 1) :
                              /\ accepted[j].via = "upload"
                              /\ accepted[j].sessionId = accepted[i].sessionId})

\* ---- C19
\* C19: within one session id, no two chunks that carry different event sets
\* have the same chunkIndex, counting the chunks uploaded with success and the
\* teardown chunks sent by destroy().
C19_ChunkIndexNeverReused ==
    \A i, j \in DOMAIN accepted :
        /\ accepted[i].sessionId = accepted[j].sessionId
        /\ accepted[i].chunkIndex = accepted[j].chunkIndex
        => Range(accepted[i].events) = Range(accepted[j].events)

\* ---- C20
\* C20: a stop() call made while recording (by the owner or by the
\* max-duration timeout) with events in the buffer starts a flush of exactly
\* these events tagged isLast = true, and the recording is not marked stopped
\* before that flush has settled.
C20_StopFlushesRemainingEvents ==
    [][/\ lastOp' \in {"stop", "maxDuration"}
       /\ isRecording /\ ~recDestroyed
       /\ recEvents # <<>>
       /\ lastOp' = "maxDuration" => maxTimers' < maxTimers
       => /\ recInflight' # <<>>
          /\ recInflight'[1].isLast
          /\ recInflight'[1].events = recEvents
          /\ isRecording']_vars

\* ---- C21
\* C21: in every recording that recorded an event, the chunks sent are closed
\* by exactly one chunk with isLast = true: no chunk is sent after a chunk
\* with isLast = true, and when the recording ends, by stop() or by destroy(),
\* a chunk with isLast = true has been sent.
C21_IsLastExactlyOnce ==
    [][/\ lastMark' # "broken"
       /\ /\ isRecording /\ ~isRecording' /\ lastOp' # "started"
          /\ lastMark' # "none" \/ recEvents' # <<>>
          => lastMark' = "closed"
       /\ /\ lastOp' = "recDestroy" /\ ~recDestroyed /\ isRecording
          /\ lastMark # "none" \/ recEvents # <<>>
          => lastMark' = "closed"]_vars

\* ---- C22
\* C22: every chunk handed to fetch, by flush() or by the teardown send,
\* holds at least one event; with an empty buffer a flush() call, a timer
\* tick, stop() and destroy() hand nothing to fetch and start no flush.
C22_NoEmptyChunk ==
    [][/\ chunkSent' # <<>> => Len(chunkSent'[1].events) >= 1
       /\ \A i \in DOMAIN recInflight' : Len(recInflight'[i].events) >= 1
       /\ /\ recEvents = <<>>
          /\ lastOp' \in {"recFlush", "recTimer", "stop", "maxDuration", "recDestroy"}
          => /\ chunkSent' = <<>>
             /\ recInflight' = recInflight
             /\ recIsFlushing' = recIsFlushing]_vars

\* stop() was called on a recording whose buffer was empty and ended it
\* without a flush.
C22_Witness ==
    /\ lastOp = "stop"
    /\ ~isRecording
    /\ ~recDestroyed
    /\ recEvents = <<>>
    /\ recInflight = <<>>
    /\ chunkSent = <<>>
    /\ startCalls >= 1
    /\ maxTimers >= 1

\* ---- C24
\* C24: destroy() called while recording with a non-empty buffer hands exactly
\* one chunk to fetch within the call: all buffered events in their order,
\* isLast = true, sent as they are by the keepalive request; after destroy()
\* no flush() call, timer tick, stop(), incoming event or further destroy()
\* starts an upload or changes the buffer.
C24_DestroySendsBufferOnce ==
    [][/\ lastOp' = "recDestroy" /\ ~recDestroyed /\ isRecording /\ recEvents # <<>>
          => /\ chunkSent' = <<Chunk(sessionId, chunkIndex, recEvents, TRUE,
                                     "keepalive")>>
             /\ recInflight' = recInflight
             /\ recEvents' = recEvents
             /\ recDestroyed'
       /\ /\ recDestroyed
          /\ lastOp' \in {"recFlush", "recTimer", "stop", "maxDuration", "event",
                          "recDestroy", "start"}
          => /\ chunkSent' = <<>>
             /\ recInflight' = recInflight
             /\ recEvents' = recEvents
             /\ recDestroyed']_vars

\* destroy() sent a teardown chunk of two buffered events.
C24_Witness ==
    /\ lastOp = "recDestroy"
    /\ recDestroyed
    /\ Len(chunkSent) = 1
    /\ chunkSent[1].via = "keepalive"
    /\ chunkSent[1].isLast
    /\ Len(chunkSent[1].events) >= 2
    /\ chunkSent[1].events = recEvents

\* ---- C25
\* C25: once destroy() has been called the pipeline is not recording: the
\* recorder is not running, no flush timer is running and getIsRecording() is
\* false.
C25_DestroyedNeverRecording ==
    recDestroyed => ~isRecording /\ ~stopFn /\ ~flushTimer

\* ---- C26
\* C26: when the compression or the upload of a chunk fails, the events of
\* the chunk are put back in front of the buffer in their order, ahead of the
\* events that arrived meanwhile, chunkIndex is unchanged, the in-flight flag
\* is cleared and onError is called; the buffer gains exactly these events.
C26_FailedChunkRequeuedInFront ==
    [][lastOp' \in {"compressed", "uploaded"} /\ recInflight # <<>>
       /\ recInflight' = <<>> /\ accepted' = accepted
       => LET evts == recInflight[1].events IN
          /\ Len(recEvents') = Len(evts) + Len(recEvents)
          /\ \A k \in 1..Len(evts) : recEvents'[k] = evts[k]
          /\ \A k \in 1..Len(recEvents) : recEvents'[Len(evts) + k] = recEvents[k]
          /\ chunkIndex' = chunkIndex
          /\ ~recIsFlushing'
          /\ recOnError'
          /\ \A i, j \in DOMAIN recEvents' : i < j => recEvents'[i] # recEvents'[j]]_vars

\* An upload failed after an event had arrived during it: the buffer holds
\* the events of the chunk, then the newer one.
C26_Witness ==
    /\ lastOp = "uploaded"
    /\ recOnError
    /\ ~recIsFlushing
    /\ Len(recEvents) >= 2
    /\ \A i, j \in DOMAIN recEvents : i < j => recEvents[i] < recEvents[j]

C27_GetVariationStable ==
    [][/\ expResult'.done
       /\ expResult'.op = "getVariation"
       /\ lastOp' \in {"getVariation", "configSettled", "assignSettled"}
       /\ expResult'.prev # 0
       => /\ expResult'.variation = expResult'.prev
          /\ expResult'.fresh => expResult'.outcome = "none"]_vars

\* ---- C28
\* C28: a variation key cached for an experiment key is replaced by no
\* operation; only reset() removes it.
C28_CachedAssignmentKept ==
    [][\A k \in Keys :
          activeExperiments[k] \in Variations /\ lastOp' # "reset"
          => activeExperiments'[k] = activeExperiments[k]]_vars

\* ---- C29
\* C29: track(k, ...) for a key with no cached assignment returns
\* success = false at once: no request is made, and nothing of the client or
\* of storage changes.
C29_TrackWithoutAssignment ==
    [][/\ lastOp' = "track"
       /\ activeExperiments[expResult'.key] \notin Variations
       => /\ expResult'.done
          /\ expResult'.success = "false"
          /\ expResult'.outcome = "none"
          /\ UNCHANGED <<activeExperiments, storedAssignments, configCache,
                         configCacheTime, ecUserIdentifier, calls,
                         prevVariation, ecVisitorId, storedVisitorId>>]_vars

\* ---- C30
\* C30: whatever way a request fails (rejected fetch, timeout, non-2xx
\* status, body that does not parse), assign resolves to assigned = false and
\* success = false, track to success = false, fetchConfig to
\* {success: false, experiments: []}, and getVariation resolves.
C30_FailuresDegrade ==
    [][/\ expResult'.done
       /\ lastOp' \in {"configSettled", "assignSettled", "trackSettled"}
       /\ expResult'.outcome \in {"error", "non2xx"}
       => /\ expResult'.op = "assign"
             => ~expResult'.assigned /\ expResult'.success = "false"
          /\ expResult'.op = "track" => expResult'.success = "false"
          /\ expResult'.op = "fetchConfig"
             => expResult'.success = "false" /\ expResult'.experiments = "empty"]_vars

\* ---- C31
\* C31 (as stated): after reset() there is no cached assignment, in memory or
\* in storage, the config snapshot is gone, and the visitor id is a new one
\* that is also the one in storage.
C31_ResetClearsEverything ==
    [][lastOp' = "reset"
       => /\ activeExperiments' = NoAssignments
          /\ storedAssignments' = NoAssignments
          /\ ~ConfigIsFresh(configCache', now', configCacheTime')
          /\ ecVisitorId' # ecVisitorId
          /\ ecVisitorId' = storedVisitorId']_vars

\* C31 (amended): after reset() there is no cached assignment in memory, the
\* config snapshot is gone and the visitor id is a new one; with working
\* storage the persisted assignments are removed and the new visitor id is
\* the one in storage.
C31_ResetClearsClient ==
    [][lastOp' = "reset"
       => /\ activeExperiments' = NoAssignments
          /\ ~ConfigIsFresh(configCache', now', configCacheTime')
          /\ ecVisitorId' # ecVisitorId
          /\ ecVisitorId' # storedVisitorId
          /\ storageOK => /\ storedAssignments' = NoAssignments
                          /\ ecVisitorId' = storedVisitorId']_vars

\* reset() has run on a client that had cached and persisted an assignment
\* and fetched a config: all of it is gone now.
C31_Witness ==
    /\ lastOp = "reset"
    /\ storageOK
    /\ activeExperiments = NoAssignments
    /\ storedAssignments = NoAssignments
    /\ ~configCache.present
    /\ configCacheTime > 0
    /\ ecVisitorId = storedVisitorId
    /\ ecVisitorId \in 1..MaxIds

\* ---- C32
\* C32: hashToBucket returns an integer b with 0 <= b < 100 for every
\* experiment key, visitor id and salt, the hash being read as unsigned.
C32_BucketInRange ==
    lastOp = "hashToBucket" => hBucket \in 0..(Buckets - 1)

\* hashToBucket was called with a salt on an input whose hash has its top
\* bit set: read as a signed integer it would be negative.
C32_Witness ==
    /\ lastOp = "hashToBucket"
    /\ hSalt # <<>>
    /\ hHash.hi >= 32768
    /\ hBucket \in 0..(Buckets - 1)
    /\ hBucket # 0

\* ---- C33
\* C33 (as stated): hashToBucket(k, v, s) is MurmurHash3 x86_32 with seed 0
\* over the bytes of the UTF-16 code units of k + ":" + v (+ ":" + s), two
\* bytes for each code unit, modulo 100, and a repeated call returns the
\* same integer.
C33_HashOfUtf16Bytes ==
    [][lastOp' = "hashToBucket"
       => LET t == HashInput(hKey, hVisitor, hSalt)
              utf16 == [i \in 1..(2 * Len(t)) |->
                          IF i % 2 = 1 THEN t[(i + 1) \div 2] % 256
                          ELSE t[i \div 2] \div 256]
          IN  /\ hBucket' = Uint32Mod(murmur3(utf16), Buckets)
              /\ lastOp = "hashToBucket" => hBucket' = hBucket]_vars

\* C33 (amended): hashToBucket(k, v, s) is MurmurHash3 x86_32 with seed 0
\* over one byte for each UTF-16 code unit of k + ":" + v (+ ":" + s), the
\* low 8 bits of the code unit, modulo 100; a repeated call returns the same
\* integer; and murmur3 gives the published values of the reference hash for
\* "", "a", "abc", "test" and "Hello, world!".
C33_HashOfLowBytes ==
    /\ [][lastOp' = "hashToBucket"
          => LET t == HashInput(hKey, hVisitor, hSalt)
                 low == [i \in 1..Len(t) |-> t[i] % 256]
             IN  /\ hHash' = murmur3(low)
                 /\ hBucket' = Uint32Mod(hHash', Buckets)
                 /\ lastOp = "hashToBucket" => hBucket' = hBucket]_vars
    /\ [][/\ murmur3(<<>>) = Word(0, 0)
          /\ murmur3(<<97>>) = Word(15397, 27058)
          /\ murmur3(<<97, 98, 99>>) = Word(46045, 37882)
          /\ murmur3(<<116, 101, 115, 116>>) = Word(47723, 53779)
          /\ murmur3(<<72, 101, 108, 108, 111, 44, 32, 119, 111, 114,
                       108, 100, 33>>) = Word(49206, 15939)]_vars

\* hashToBucket was called on an input of a whole block and a remainder that
\* holds a code unit above 0xff.
C33_Witness ==
    /\ lastOp = "hashToBucket"
    /\ Len(HashInput(hKey, hVisitor, hSalt)) >= 5
    /\ Len(HashInput(hKey, hVisitor, hSalt)) % 4 # 0
    /\ \E i \in DOMAIN hKey : hKey[i] > 255
    /\ \E i \in DOMAIN hVisitor : hVisitor[i] <= 255

\* ---- C34
\* C34: a non-2xx answer makes send() reject with the code of its status
\* (400 INVALID_PAYLOAD, 401 and 403 INVALID_API_KEY, 429 RATE_LIMITED, any
\* other UNKNOWN) and with statusCode being the status; NETWORK_ERROR is the
\* code only when the request itself failed, TIMEOUT only when the timeout
\* aborted it.
C34_ErrorCodeOfStatus ==
    [][/\ lastOp' = "sendResponded" /\ ~ResponseOk(fbResult'.status)
          => /\ fbResult'.kind = "rejected"
             /\ fbResult'.code = handleErrorResponse(fbResult'.status).code
             /\ fbResult'.statusCode = fbResult'.status
       /\ fbResult'.code = "NETWORK_ERROR"
          => \/ lastOp' = "sendFailed"
             \/ lastOp' = "sendResponded" /\ ResponseOk(fbResult'.status)
       /\ fbResult'.code = "TIMEOUT" => lastOp' = "sendTimedOut"]_vars

\* ---- C35
\* C35: when assign() reads a 2xx body with assigned = true and a variation,
\* the entry of the experiment holds that variation afterwards, in memory and
\* in storage; after every other outcome of assign() the assignments in
\* memory and in storage are what they were.
C35_AssignmentPersisted ==
    [][lastOp' = "assignSettled"
       => IF expResult'.outcome = "ok" /\ expResult'.received # 0
          THEN /\ activeExperiments'[expResult'.key] = expResult'.received
               /\ storedAssignments'[expResult'.key] = expResult'.received
          ELSE UNCHANGED <<activeExperiments, storedAssignments>>]_vars

\* ---- C36
\* C36: with nothing, a text that is not JSON or the text "null" under the
\* assignments key, the constructed client has no active experiments, and no
\* getVariation, track or assign is rejected.
C36_InvalidCacheIsMiss ==
    /\ storedAssignments \in {NoAssignments, NotJson, NullAssignments}
       => getActiveExperiments(activeExperiments) = NoAssignments
    /\ [][~expResult'.rejected]_vars

\* ---- C38
\* C38: also when start() is called again before the import of an earlier
\* start() has settled, at most one rrweb recorder is running, and a
\* recording has one flush timer and at most one max-duration timeout of its
\* own pending.
C38_OneRecorderOneTimer ==
    /\ recorders <= 1
    /\ isRecording => maxTimers - staleTimers <= 1

\* ---- C39
\* C39: a max-duration timeout armed for an earlier recording stops nothing
\* when it fires: a recording is stopped by the timeout only when the
\* timeout is its own.
C39_StaleTimerStopsNothing ==
    [][lastOp' = "maxDuration" /\ staleTimers > 0
       => UNCHANGED <<isRecording, stopFn, flushTimer, recorders, recEvents,
                      recInflight>>]_vars

\* ---- C37
\* C37: deliveries respect creation order, also when a teardown send runs
\* while a flush is in flight: an event delivered for the first time is newer
\* than every event delivered before it.  A teardown payload is delivered
\* when it is handed over; a flushed one is taken as delivered as early as
\* can be, when the request that succeeds was sent.
C37_DeliveriesInCreationOrder ==
    [][/\ lastOp' = "flushOk"
          => \E i \in DOMAIN inflight :
                /\ inflight' = RemoveAt(inflight, i)
                /\ \A a \in Range(inflight[i].events) \ everDelivered :
                      \A b \in inflight[i].seen : b < a
       /\ lastOp' \in {"unload", "destroy"}
          => \A a \in everDelivered' \ everDelivered :
                \A b \in everDelivered : b < a]_vars

\* ---- C40
\* C40: a delivery that succeeds consumes the first-batch flag only when the
\* session id of the delivered payload is the present one, and the first
\* payload delivered for a session id carries the session metadata.
C40_FlagOfDeliveredSession ==
    [][/\ lastOp' = "flushOk"
          => \E i \in DOMAIN inflight :
                /\ inflight' = RemoveAt(inflight, i)
                /\ inflight[i].sessionId # sessionId
                   => isFirstBatch' = isFirstBatch
                /\ inflight[i].sessionId \notin deliveredFor
                   => inflight[i].session
       /\ lastOp' \in {"unload", "destroy"} /\ deliveredNow' # <<>>
          /\ sessionId \notin deliveredFor
          => deliveredNow'[1]]_vars

=============================================================================
